---- MODULE Spec2Model ----
(***************************************************************************)
(* State-machine model of the DEX / liquid-staking front end:              *)
(*   - api/rpc.ts            the serverless JSON-RPC relay (handler)       *)
(*   - components/Swap.tsx   token selection, pool loading, swap preview,  *)
(*                           handleSwap                                    *)
(*   - Staking component     toRawAmount, ensureConfig, sendDeploy,        *)
(*                           handleStake / handleUnstake / handleWithdraw  *)
(*   - Approve component     handleApprove                                 *)
(*   - services/lst.ts       the liquid-staking deploy builders            *)
(* Strings the code inspects (prefixes, suffixes, digits) are sequences of *)
(* one-character strings, so that startsWith / endsWith / replace /        *)
(* parseFloat are computed and not assumed.                                *)
(***************************************************************************)
EXTENDS Integers, Sequences, FiniteSets, TLC

VARIABLES
    \* ---- api/rpc.ts: one invocation of handler
    rpcEnv,        \* process.env: NODE_ADDRESS, VITE_NODE_ADDRESS
    rpcReq,        \* the request: method and body
    rpcPc,         \* "idle" | "awaitFetch" | "awaitText" | "done" | "threw"
    upstreamReqs,  \* the fetch() calls made to the node, in order
    upstream,      \* the upstream Response once fetch() has resolved
    rpcRes,        \* the VercelResponse: status, content-type, bodies sent
    \* ---- useDex(): the configuration and the chain the dex client reads
    config,        \* config.tokens (in key order), per token its hashes and decimals
    chain,         \* what the node answers: pair addresses, reserves, pair tokens
    \* ---- components/Swap.tsx: React state of the Swap component
    tokenIn, tokenOut, amountIn, slippage,
    pairInfo, pairAddr, pairError,
    expectedOutput, minimumReceived,
    fxQueue,       \* effects of committed renders still to run, oldest first
    fetches,       \* fetchReserves invocations awaiting the node
    previewArgs,   \* the last arguments handed to dex.getAmountOut
    \* ---- the transaction handlers of Swap, Approve and Staking
    wallet,        \* useWallet(): activeKey and publicKey ('' when absent)
    lstConfig,     \* LstConfig: the staking-manager hashes read from the environment
    component,     \* the component that is mounted: "Swap" | "Approve" | "Staking"
    loading,       \* its loading state
    op,            \* the latest run of one of its handlers
    csprAmount, scsprAmount, requestId,   \* Staking: the three inputs
    token, amount, \* Approve: the token and the amount
    \* ---- App.tsx: the wallet connection, the balances and their polling
    isConnected,   \* wallet.isConnected
    pollDeps,      \* the dependencies the polling effect last ran with
    intervals,     \* the intervals set and not cleared
    pollCleanup,   \* the interval the cleanup of the effect clears, 0 for none
    timerSeq,      \* the id of the last interval created
    balanceFetch,  \* the latest call of fetchBalance
    balance, tokenBalances

rpcVars == <<rpcEnv, rpcReq, rpcPc, upstreamReqs, upstream, rpcRes>>

dexVars == <<config, chain>>

swapVars ==
    <<tokenIn, tokenOut, amountIn, slippage, pairInfo, pairAddr, pairError,
      expectedOutput, minimumReceived, fxQueue, fetches, previewArgs>>

txVars ==
    <<wallet, lstConfig, component, loading, op, csprAmount, scsprAmount, requestId,
      token, amount>>

appVars ==
    <<isConnected, pollDeps, intervals, pollCleanup, timerSeq, balanceFetch, balance,
      tokenBalances>>

vars == <<rpcVars, dexVars, swapVars, txVars, appVars>>

\* What the relay leaves alone, and what the Swap component leaves alone.
outsideRpc == <<dexVars, swapVars, txVars, appVars>>

outsideSwap == <<rpcVars, dexVars, txVars, appVars>>

outsideTx == <<rpcVars, dexVars, swapVars, appVars>>

----------------------------------------------------------------------------
(* Strings                                                                 *)

\* An optional string: undefined, or a sequence of characters.
Undef == [def |-> FALSE, s |-> <<>>]

Str(s) == [def |-> TRUE, s |-> s]

\* JavaScript truthiness of an optional string: undefined and '' are falsy.
Truthy(o) == o.def /\ Len(o.s) > 0

\* a || b on optional strings.
OrElse(a, b) == IF Truthy(a) THEN a ELSE b

StartsWith(s, p) == Len(s) >= Len(p) /\ SubSeq(s, 1, Len(p)) = p

EndsWith(s, p) == Len(s) >= Len(p) /\ SubSeq(s, Len(s) - Len(p) + 1, Len(s)) = p

\* s with its first Len(p) characters removed.
DropPrefix(s, p) == SubSeq(s, Len(p) + 1, Len(s))

----------------------------------------------------------------------------
(* Characters, hexadecimal and decimal numerals                            *)

LowerChar(c) ==
    CASE c = "A" -> "a" [] c = "B" -> "b" [] c = "C" -> "c" [] c = "D" -> "d"
      [] c = "E" -> "e" [] c = "F" -> "f" [] c = "G" -> "g" [] c = "H" -> "h"
      [] c = "K" -> "k" [] c = "N" -> "n" [] c = "O" -> "o" [] c = "P" -> "p"
      [] c = "R" -> "r" [] c = "S" -> "s" [] c = "T" -> "t"
      [] OTHER -> c

\* String.prototype.toLowerCase
ToLowerCase(s) == [i \in 1..Len(s) |-> LowerChar(s[i])]

HexChars == <<"0", "1", "2", "3", "4", "5", "6", "7", "8", "9", "a", "b", "c", "d", "e", "f">>

\* The value of a hexadecimal digit, -1 for any other character.
HexVal(c) ==
    LET l == LowerChar(c)
    IN  IF \E i \in 1..16 : HexChars[i] = l
        THEN (CHOOSE i \in 1..16 : HexChars[i] = l) - 1
        ELSE -1

\* parseInt(b, 16) of a chunk of one or two characters, stored in a Uint8Array
\* (NaN is stored as 0): the longest hexadecimal prefix of the chunk.
ParseHexByte(b) ==
    IF HexVal(b[1]) < 0 THEN 0
    ELSE IF Len(b) = 1 \/ HexVal(b[2]) < 0 THEN HexVal(b[1])
    ELSE 16 * HexVal(b[1]) + HexVal(b[2])

\* clean.match(/.{1,2}/g): the string cut in chunks of two characters, the
\* last one of one character when the length is odd.
Chunks(s) ==
    [i \in 1..((Len(s) + 1) \div 2) |->
        SubSeq(s, 2 * i - 1, IF 2 * i <= Len(s) THEN 2 * i ELSE Len(s))]

DecChars == <<"0", "1", "2", "3", "4", "5", "6", "7", "8", "9">>

IsDigit(c) == \E i \in 1..10 : DecChars[i] = c

DigitVal(c) == (CHOOSE i \in 1..10 : DecChars[i] = c) - 1

\* The longest prefix of s made of decimal digits.
RECURSIVE TakeDigits(_)
TakeDigits(s) ==
    IF Len(s) > 0 /\ IsDigit(s[1]) THEN <<s[1]>> \o TakeDigits(Tail(s)) ELSE <<>>

\* A JavaScript number read from a decimal numeral: NaN, or sign, integer
\* digits and fraction digits; `used` is the number of characters consumed.
NaN == [nan |-> TRUE, neg |-> FALSE, ip |-> <<>>, fp |-> <<>>, used |-> 0]

\* parseFloat(s): the longest prefix of s that is a decimal numeral
\* [+-]digits[.digits]; NaN when there is none. (Exponents, 'Infinity' and
\* leading white space do not occur in the inputs of the model.)
ParseFloat(s) ==
    LET signed == Len(s) > 0 /\ s[1] \in {"-", "+"}
        body == IF signed THEN Tail(s) ELSE s
        ip == TakeDigits(body)
        rest == SubSeq(body, Len(ip) + 1, Len(body))
        dotted == Len(rest) > 0 /\ rest[1] = "."
        fp == IF dotted THEN TakeDigits(Tail(rest)) ELSE <<>>
    IN  IF Len(ip) + Len(fp) = 0 THEN NaN
        ELSE [nan |-> FALSE, neg |-> (signed /\ s[1] = "-"), ip |-> ip, fp |-> fp,
              used |-> (IF signed THEN 1 ELSE 0) + Len(ip)
                         + (IF dotted THEN 1 + Len(fp) ELSE 0)]

\* Number(s): 0 for the empty string, the numeral when s is one as a whole,
\* NaN otherwise.
NumberOf(s) ==
    IF Len(s) = 0 THEN [nan |-> FALSE, neg |-> FALSE, ip |-> <<"0">>, fp |-> <<>>, used |-> 0]
    ELSE IF ParseFloat(s).used = Len(s) THEN ParseFloat(s)
    ELSE NaN

AllZero(ds) == \A i \in 1..Len(ds) : ds[i] = "0"

IsZero(n) == ~n.nan /\ AllZero(n.ip) /\ AllZero(n.fp)

\* n <= 0 and n > 0 as JavaScript compares: both are false for NaN.
LeqZero(n) == ~n.nan /\ (n.neg \/ IsZero(n))

GtZero(n) == ~n.nan /\ ~n.neg /\ ~IsZero(n)

RECURSIVE DigitsToInt(_)
DigitsToInt(ds) ==
    IF Len(ds) = 0 THEN 0
    ELSE 10 * DigitsToInt(SubSeq(ds, 1, Len(ds) - 1)) + DigitVal(ds[Len(ds)])

RECURSIVE Pow10(_)
Pow10(k) == IF k <= 0 THEN 1 ELSE 10 * Pow10(k - 1)

\* The first d fraction digits of n, padded with zeros.
FracDigits(n, d) == [i \in 1..d |-> IF i <= Len(n.fp) THEN n.fp[i] ELSE "0"]

\* The digits of floor(n * 10^d) for n >= 0 (the decimal point moved d places).
ShiftedDigits(n, d) == n.ip \o FracDigits(n, d)

\* Math.floor(n * 10 ** d) for n >= 0, as an integer.
FloorScaled(n, d) == DigitsToInt(ShiftedDigits(n, d))

\* Whether n * 10 ** d is an integer (BigInt() of a fraction throws).
IsIntegerScaled(n, d) == AllZero(SubSeq(n.fp, d + 1, Len(n.fp)))

RECURSIVE StripZeros(_)
StripZeros(ds) ==
    IF Len(ds) > 1 /\ ds[1] = "0" THEN StripZeros(Tail(ds))
    ELSE IF Len(ds) = 0 THEN <<"0">>
    ELSE ds

\* A bigint as its decimal digits (bigint.toString()).
BigIntDigits(n, d) == StripZeros(ShiftedDigits(n, d))

\* u / 10^k rounded to the nearest integer, halves up (Number.prototype.toFixed
\* picks the larger of two equally near candidates).
RoundDiv(u, den) == (2 * u + den) \div (2 * den)

\* u * 10^e for e >= 0, floor(u / 10^-e) for e < 0.
ScaleFloor(u, e) == IF e >= 0 THEN u * Pow10(e) ELSE u \div Pow10(-e)

\* u * 10^e rounded to the nearest integer.
ScaleRound(u, e) == IF e >= 0 THEN u * Pow10(e) ELSE RoundDiv(u, Pow10(-e))

----------------------------------------------------------------------------
(* useDex(): configuration and chain                                       *)

HashPfx == <<"h", "a", "s", "h", "-">>

ContractPfx == <<"c", "o", "n", "t", "r", "a", "c", "t", "-">>

ContractPackagePfx == ContractPfx \o <<"p", "a", "c", "k", "a", "g", "e", "-">>

AccountHashPfx == <<"a", "c", "c", "o", "u", "n", "t", "-">> \o HashPfx

\* Object.keys(config.tokens), in key order.
Symbols == <<"WCSPR", "ECTO", "USDC">>

\* The hashes the tokens have on chain (shortened to two bytes).
TokenHex ==
    [WCSPR |-> [pkg |-> <<"0", "a", "1", "0">>, ctr |-> <<"c", "1", "0", "0">>],
     ECTO  |-> [pkg |-> <<"0", "a", "0", "2">>, ctr |-> <<"c", "2", "0", "0">>],
     USDC  |-> [pkg |-> <<"f", "f", "0", "0">>, ctr |-> <<"c", "3", "0", "0">>]]

\* A configuration of the three tokens: only WCSPR lists its contract hash.
PoolConfig ==
    [symbols |-> Symbols, chainName |-> "casper-test",
     routerPackageHash |-> HashPfx \o <<"d", "e", "0", "0">>,
     tokens |->
        [WCSPR |-> [packageHash |-> HashPfx \o TokenHex.WCSPR.pkg,
                    contractHash |-> HashPfx \o TokenHex.WCSPR.ctr, decimals |-> 3],
         ECTO  |-> [packageHash |-> HashPfx \o TokenHex.ECTO.pkg,
                    contractHash |-> <<>>, decimals |-> 2],
         USDC  |-> [packageHash |-> HashPfx \o TokenHex.USDC.pkg,
                    contractHash |-> <<>>, decimals |-> 2]]]

\* The pools on chain, with the reserve of each of their two tokens; there is
\* no WCSPR/USDC pool.
Pools ==
    { [addr |-> "pair-1", a |-> "WCSPR", b |-> "ECTO", ra |-> 5000, rb |-> 9000],
      [addr |-> "pair-2", a |-> "ECTO", b |-> "USDC", ra |-> 4000, rb |-> 7000] }

\* null for a pair address.
NoAddr == ""

\* How the node reports a pair: whether its token0/token1 keys can be read, as
\* which hash each is reported (package or contract), and which of the pool's
\* tokens the pair contract holds as token0.
AddrStyles == {"package", "contract"}

Chains ==
    [readable : {TRUE}, style0 : AddrStyles, style1 : AddrStyles, aIsToken0 : BOOLEAN]
        \cup [readable : {FALSE}, style0 : {"package"}, style1 : {"package"},
              aIsToken0 : BOOLEAN]

PoolAt(addr) == CHOOSE p \in Pools : p.addr = addr

\* dex.getPairAddressDebug(hashIn, hashOut).pairAddr: the pair of two tokens,
\* in either order, or null.
GetPairAddress(tin, tout) ==
    IF \E p \in Pools : {p.a, p.b} = {tin, tout} /\ tin # tout
    THEN (CHOOSE p \in Pools : {p.a, p.b} = {tin, tout}).addr
    ELSE NoAddr

Token0Of(ch, addr) == IF ch.aIsToken0 THEN PoolAt(addr).a ELSE PoolAt(addr).b

Token1Of(ch, addr) == IF ch.aIsToken0 THEN PoolAt(addr).b ELSE PoolAt(addr).a

\* dex.getPairReserves(pairAddr)
GetPairReserves(ch, addr) ==
    IF ch.aIsToken0
    THEN [reserve0 |-> PoolAt(addr).ra, reserve1 |-> PoolAt(addr).rb]
    ELSE [reserve0 |-> PoolAt(addr).rb, reserve1 |-> PoolAt(addr).ra]

ReportedKey(sym, style) ==
    HashPfx \o (IF style = "package" THEN TokenHex[sym].pkg ELSE TokenHex[sym].ctr)

\* dex.getPairTokens(pairAddr): null, or the keys of token0 and token1.
GetPairTokens(ch, addr) ==
    IF ch.readable
    THEN [readable |-> TRUE,
          token0 |-> ReportedKey(Token0Of(ch, addr), ch.style0),
          token1 |-> ReportedKey(Token1Of(ch, addr), ch.style1)]
    ELSE [readable |-> FALSE, token0 |-> <<>>, token1 |-> <<>>]

\* dex.getAmountOut(amountIn, reserveIn, reserveOut): the constant-product
\* output, x * y = k.
GetAmountOut(a, rin, rout) == IF rin + a = 0 THEN 0 ELSE (a * rout) \div (rin + a)

----------------------------------------------------------------------------
(* components/Swap.tsx: hash helpers and the token0/token1 resolution      *)

\* String.prototype.replace(/^p/, '')
ReplacePrefix(s, p) == IF StartsWith(s, p) THEN DropPrefix(s, p) ELSE s

\* lines 52-59
normalizeHash(keyStr) ==
    IF Len(keyStr) = 0 THEN <<>>
    ELSE ReplacePrefix(
             ReplacePrefix(ReplacePrefix(ToLowerCase(keyStr), HashPfx), ContractPfx),
             ContractPackagePfx)

\* new Uint8Array(33)
KeySize == 33

\* lines 62-71: the tag and the hexadecimal part of a key.
KeyTag(keyStr) == IF StartsWith(keyStr, AccountHashPfx) THEN 0 ELSE 1

KeyClean(keyStr) ==
    IF StartsWith(keyStr, AccountHashPfx) THEN DropPrefix(keyStr, AccountHashPfx)
    ELSE IF StartsWith(keyStr, HashPfx) THEN DropPrefix(keyStr, HashPfx)
    ELSE IF StartsWith(keyStr, ContractPackagePfx) THEN DropPrefix(keyStr, ContractPackagePfx)
    ELSE keyStr

\* lines 74-75: match() is null for the empty string, and bytes.set() throws
\* when the hash does not fit in the array.
serializeKeyThrows(keyStr) ==
    Len(KeyClean(keyStr)) = 0 \/ Len(Chunks(KeyClean(keyStr))) > KeySize - 1

\* lines 61-77
serializeKey(keyStr) ==
    LET hashBytes == Chunks(KeyClean(keyStr))
    IN  [i \in 1..KeySize |->
            IF i = 1 THEN KeyTag(keyStr)
            ELSE IF i - 1 <= Len(hashBytes) THEN ParseHexByte(hashBytes[i - 1])
            ELSE 0]

MinOf(S) == CHOOSE x \in S : \A y \in S : x <= y

\* lines 79-85
compareBytes(a, b) ==
    LET len == IF Len(a) <= Len(b) THEN Len(a) ELSE Len(b)
        diff == {i \in 1..len : a[i] # b[i]}
    IN  IF diff # {} THEN a[MinOf(diff)] - b[MinOf(diff)] ELSE Len(a) - Len(b)

\* undefined for a symbol.
NoSymbol == ""

\* lines 124-131: the first configured token whose package or contract hash
\* is the address, or undefined.
findSymbol(addr, cfg) ==
    LET normalized == normalizeHash(addr)
        hits == {i \in 1..Len(cfg.symbols) :
                    \/ normalized = normalizeHash(cfg.tokens[cfg.symbols[i]].packageHash)
                    \/ normalized = normalizeHash(cfg.tokens[cfg.symbols[i]].contractHash)}
    IN  IF hits = {} THEN NoSymbol ELSE cfg.symbols[MinOf(hits)]

\* Mutant: the fallback keeps the selection order.
FallbackToken0_Selected(tin, tout, cfg) == tin

\* lines 146-149: the labels when the pair tokens cannot be read.
FallbackToken0(tin, tout, cfg) ==
    IF compareBytes(serializeKey(cfg.tokens[tin].packageHash),
                    serializeKey(cfg.tokens[tout].packageHash)) <= 0
    THEN tin ELSE tout

\* lines 120-150: token0 and token1 of the loaded pool, and the branch taken.
ResolveTokens(tin, tout, pairTokens, cfg) ==
    IF pairTokens.readable
    THEN LET token0Symbol == findSymbol(pairTokens.token0, cfg)
             token1Symbol == findSymbol(pairTokens.token1, cfg)
         IN  IF token0Symbol # NoSymbol /\ token1Symbol # NoSymbol
             THEN [token0 |-> token0Symbol, token1 |-> token1Symbol, branch |-> "both"]
             ELSE IF token0Symbol # NoSymbol
             THEN [token0 |-> token0Symbol,
                   token1 |-> IF token0Symbol = tin THEN tout ELSE tin,
                   branch |-> "only0"]
             ELSE IF token1Symbol # NoSymbol
             THEN [token0 |-> IF token1Symbol = tin THEN tout ELSE tin,
                   token1 |-> token1Symbol, branch |-> "only1"]
             ELSE [token0 |-> tin, token1 |-> tout, branch |-> "none"]
    ELSE LET token0 == FallbackToken0(tin, tout, cfg)
         IN  [token0 |-> token0, token1 |-> IF token0 = tin THEN tout ELSE tin,
              branch |-> "fallback"]

\* Whether lines 146-147 throw (into the catch of line 153).
ResolveThrows(tin, tout, pairTokens, cfg) ==
    /\ ~pairTokens.readable
    /\ \/ serializeKeyThrows(cfg.tokens[tin].packageHash)
       \/ serializeKeyThrows(cfg.tokens[tout].packageHash)

----------------------------------------------------------------------------
(* api/rpc.ts                                                              *)

RpcSuffix == <<"/", "r", "p", "c">>

NodeHost == <<"n", "o", "d", "e">>

\* The values NODE_ADDRESS and VITE_NODE_ADDRESS take in the model.
NodeAddresses ==
    { Undef, Str(<<>>), Str(NodeHost), Str(NodeHost \o RpcSuffix),
      Str(NodeHost \o RpcSuffix \o <<"/">>) }

Methods == {"GET", "POST", "OPTIONS"}

\* JSON values a client sends (opaque RPC calls).
JsonValues == {"call1", "call2"}

\* A JSON text denotes a value; the same value has several texts (spacing).
\* JSON.stringify yields the compact one.
JsonTexts ==
    [valid : {TRUE}, val : JsonValues, compact : BOOLEAN]
        \cup {[valid |-> FALSE, val |-> "call1", compact |-> FALSE]}

\* req.body: absent, an already parsed object, or a string.
Bodies ==
    {[kind |-> "undefined", val |-> "call1", text |-> [valid |-> FALSE, val |-> "call1", compact |-> FALSE]]}
        \cup {[kind |-> "object", val |-> v, text |-> [valid |-> FALSE, val |-> "call1", compact |-> FALSE]] : v \in JsonValues}
        \cup {[kind |-> "string", val |-> "call1", text |-> t] : t \in JsonTexts}

\* A payload (the value of `payload` at line 17): undefined or a JSON value.
NoPayload == [def |-> FALSE, val |-> "call1"]

Payload(v) == [def |-> TRUE, val |-> v]

\* JSON.parse(text): throws on a text that is not JSON.
JsonParseThrows(t) == ~t.valid

JsonParse(t) == Payload(t.val)

\* JSON.stringify(payload): undefined for undefined, else the compact text.
NoText == [def |-> FALSE, t |-> [valid |-> FALSE, val |-> "call1", compact |-> FALSE]]

JsonStringify(p) ==
    IF p.def THEN [def |-> TRUE, t |-> [valid |-> TRUE, val |-> p.val, compact |-> TRUE]]
    ELSE NoText

\* line 9
NodeAddressOf(env) == OrElse(env.NODE_ADDRESS, env.VITE_NODE_ADDRESS)

\* line 15
RpcUrlOf(nodeAddress) ==
    IF EndsWith(nodeAddress, RpcSuffix) THEN nodeAddress ELSE nodeAddress \o RpcSuffix

\* line 17
PayloadThrows(body) == body.kind = "string" /\ JsonParseThrows(body.text)

PayloadOf(body) ==
    CASE body.kind = "string" -> JsonParse(body.text)
      [] body.kind = "object" -> Payload(body.val)
      [] OTHER -> NoPayload

StatusCodes == {200, 404, 502}

UpstreamTexts == {"result", "rpc-error", ""}

ContentTypes == {"", "application/json", "text/plain"}

NoUpstream == [status |-> 0, contentType |-> "", arrived |-> FALSE, text |-> ""]

\* A fresh VercelResponse: status 200 until set, nothing sent.
FreshRes == [status |-> 200, contentType |-> "", sent |-> <<>>]

\* res.status(code).json({error: msg})
JsonError(res, code, msg) ==
    [res EXCEPT !.status = code, !.contentType = "application/json",
                !.sent = Append(@, [kind |-> "error", text |-> msg])]

NoReq == [method |-> "", body |-> [kind |-> "undefined", val |-> "call1", text |-> [valid |-> FALSE, val |-> "call1", compact |-> FALSE]]]

\* Mutant: the method check lets GET through.
MethodAllowed_AnyRead(m) == m \in {"POST", "GET"}

\* line 4: only POST is relayed.
MethodAllowed(m) == m = "POST"

\* Lines 3-23: the handler up to its first await.
handler(m, b) ==
    /\ rpcPc = "idle"
    /\ rpcReq' = [method |-> m, body |-> b]
    /\ upstream' = NoUpstream
    /\ IF ~MethodAllowed(m)
       THEN /\ rpcRes' = JsonError(FreshRes, 405, "Method not allowed")
            /\ rpcPc' = "done"
            /\ upstreamReqs' = <<>>
       ELSE IF ~Truthy(NodeAddressOf(rpcEnv))
       THEN /\ rpcRes' = JsonError(FreshRes, 500, "NODE_ADDRESS is not configured")
            /\ rpcPc' = "done"
            /\ upstreamReqs' = <<>>
       ELSE IF PayloadThrows(b)
       THEN /\ rpcRes' = FreshRes
            /\ rpcPc' = "threw"
            /\ upstreamReqs' = <<>>
       ELSE /\ rpcRes' = FreshRes
            /\ rpcPc' = "awaitFetch"
            /\ upstreamReqs' =
                   <<[url |-> RpcUrlOf(NodeAddressOf(rpcEnv).s), method |-> "POST",
                      contentType |-> "application/json",
                      body |-> JsonStringify(PayloadOf(b))]>>
    /\ UNCHANGED rpcEnv
    /\ UNCHANGED outsideRpc

\* Line 19: fetch() resolves with the node's response.
FetchResolve(st, ct) ==
    /\ rpcPc = "awaitFetch"
    /\ upstream' = [status |-> st, contentType |-> ct, arrived |-> TRUE, text |-> ""]
    /\ rpcPc' = "awaitText"
    /\ UNCHANGED <<rpcEnv, rpcReq, upstreamReqs, rpcRes>>
    /\ UNCHANGED outsideRpc

\* Line 19: fetch() rejects (node unreachable); nothing catches it.
FetchReject ==
    /\ rpcPc = "awaitFetch"
    /\ rpcPc' = "threw"
    /\ UNCHANGED <<rpcEnv, rpcReq, upstreamReqs, upstream, rpcRes>>
    /\ UNCHANGED outsideRpc

\* Lines 25-28: upstream.text() resolves; status, header and body are relayed.
TextResolve(text) ==
    /\ rpcPc = "awaitText"
    /\ rpcRes' = [status |-> upstream.status,
                  contentType |-> IF upstream.contentType # "" THEN upstream.contentType
                                  ELSE "application/json",
                  sent |-> Append(rpcRes.sent, [kind |-> "text", text |-> text])]
    /\ upstream' = [upstream EXCEPT !.text = text]
    /\ rpcPc' = "done"
    /\ UNCHANGED <<rpcEnv, rpcReq, upstreamReqs>>
    /\ UNCHANGED outsideRpc

\* Line 25: upstream.text() rejects (connection lost while reading).
TextReject ==
    /\ rpcPc = "awaitText"
    /\ rpcPc' = "threw"
    /\ UNCHANGED <<rpcEnv, rpcReq, upstreamReqs, upstream, rpcRes>>
    /\ UNCHANGED outsideRpc

\* The platform invokes the function again for the next request.
NextInvocation ==
    /\ rpcPc \in {"done", "threw"}
    /\ rpcPc' = "idle"
    /\ rpcReq' = NoReq
    /\ upstreamReqs' = <<>>
    /\ upstream' = NoUpstream
    /\ rpcRes' = FreshRes
    /\ UNCHANGED rpcEnv
    /\ UNCHANGED outsideRpc

----------------------------------------------------------------------------
(* components/Swap.tsx: state, effects and pool loading                    *)

\* The most fetchReserves invocations awaiting the node at one time.
MaxFetches == 2

\* null for pairInfo. (tin, tout, branch record the selection the pool was
\* loaded for and the branch of lines 120-150 that labelled it.)
NoPairInfo ==
    [loaded |-> FALSE, r0 |-> 0, r1 |-> 0, token0 |-> "", token1 |-> "",
     tin |-> "", tout |-> "", branch |-> ""]

\* A numeric string with four decimals ('0' is 0): its value in 1/10000, or 'NaN'.
Fixed4(u) == [nan |-> FALSE, u |-> u]

Fixed4NaN == [nan |-> TRUE, u |-> 0]

NoArgs == [called |-> FALSE, amountIn |-> 0, reserveIn |-> 0, reserveOut |-> 0,
           tokenIn |-> "", tokenOut |-> "", tin |-> "", tout |-> "", branch |-> ""]

\* What a render closes over for its effects.
Snap(ti, to, am, sl, pi) ==
    [tokenIn |-> ti, tokenOut |-> to, amountIn |-> am, slippage |-> sl, pairInfo |-> pi]

\* The effects a committed render runs, in the order the component declares
\* them, given the set of effects one of whose dependencies changed.
RenderFx(changed, snap) ==
    (IF "same" \in changed THEN <<[fx |-> "same", snap |-> snap]>> ELSE <<>>)
        \o (IF "fetch" \in changed THEN <<[fx |-> "fetch", snap |-> snap]>> ELSE <<>>)
        \o (IF "preview" \in changed THEN <<[fx |-> "preview", snap |-> snap]>> ELSE <<>>)

SelectionFx == {"same", "fetch", "preview"}

\* lines 21-36: the state after the first render, its effects still to run.
InitSwapState(cfg) ==
    /\ tokenIn = cfg.symbols[1]
    /\ tokenOut = cfg.symbols[2]
    /\ amountIn = <<"1", "0">>
    /\ slippage = <<"0", ".", "5">>
    /\ pairInfo = NoPairInfo
    /\ pairAddr = NoAddr
    /\ pairError = ""
    /\ expectedOutput = Fixed4(0)
    /\ minimumReceived = Fixed4(0)
    /\ fetches = {}
    /\ previewArgs = NoArgs
    /\ fxQueue = RenderFx(SelectionFx,
                          Snap(cfg.symbols[1], cfg.symbols[2], <<"1", "0">>,
                               <<"0", ".", "5">>, NoPairInfo))

SymbolSet(cfg) == {cfg.symbols[i] : i \in 1..Len(cfg.symbols)}

\* The user picks the input token (line 335).
setTokenInByUser(s) ==
    /\ fxQueue = <<>>
    /\ Cardinality(fetches) < MaxFetches
    /\ s \in SymbolSet(config) /\ s # tokenIn
    /\ tokenIn' = s
    /\ fxQueue' = RenderFx(SelectionFx, Snap(s, tokenOut, amountIn, slippage, pairInfo))
    /\ UNCHANGED <<tokenOut, amountIn, slippage, pairInfo, pairAddr, pairError,
                   expectedOutput, minimumReceived, fetches, previewArgs>>
    /\ UNCHANGED outsideSwap

\* The user picks the output token (line 378).
setTokenOutByUser(s) ==
    /\ fxQueue = <<>>
    /\ Cardinality(fetches) < MaxFetches
    /\ s \in SymbolSet(config) /\ s # tokenOut
    /\ tokenOut' = s
    /\ fxQueue' = RenderFx(SelectionFx, Snap(tokenIn, s, amountIn, slippage, pairInfo))
    /\ UNCHANGED <<tokenIn, amountIn, slippage, pairInfo, pairAddr, pairError,
                   expectedOutput, minimumReceived, fetches, previewArgs>>
    /\ UNCHANGED outsideSwap

\* lines 39-42
handleSwapDirection ==
    /\ fxQueue = <<>>
    /\ Cardinality(fetches) < MaxFetches
    /\ tokenIn' = tokenOut
    /\ tokenOut' = tokenIn
    /\ fxQueue' = IF tokenIn = tokenOut THEN <<>>
                  ELSE RenderFx(SelectionFx,
                                Snap(tokenOut, tokenIn, amountIn, slippage, pairInfo))
    /\ UNCHANGED <<amountIn, slippage, pairInfo, pairAddr, pairError,
                   expectedOutput, minimumReceived, fetches, previewArgs>>
    /\ UNCHANGED outsideSwap

\* Mutant: the fallback is the first token, whatever tokenIn is.
FallbackSymbol_First(cfg, ti) == cfg.symbols[1]

\* line 47: tokenSymbols.find((s) => s !== tokenIn), or undefined.
FallbackSymbol(cfg, ti) ==
    LET others == {i \in 1..Len(cfg.symbols) : cfg.symbols[i] # ti}
    IN  IF others = {} THEN NoSymbol ELSE cfg.symbols[MinOf(others)]

\* lines 45-50: the effect that prevents selecting the same token twice.
SameTokenEffect ==
    /\ fxQueue # <<>> /\ Head(fxQueue).fx = "same"
    /\ LET snap == Head(fxQueue).snap
           fallback == FallbackSymbol(config, snap.tokenIn)
       IN  IF snap.tokenIn = snap.tokenOut /\ fallback # NoSymbol /\ fallback # tokenOut
           THEN /\ tokenOut' = fallback
                /\ fxQueue' = Tail(fxQueue)
                       \o RenderFx(SelectionFx,
                                   Snap(tokenIn, fallback, amountIn, slippage, pairInfo))
           ELSE /\ tokenOut' = tokenOut
                /\ fxQueue' = Tail(fxQueue)
    /\ UNCHANGED <<tokenIn, amountIn, slippage, pairInfo, pairAddr, pairError,
                   expectedOutput, minimumReceived, fetches, previewArgs>>
    /\ UNCHANGED outsideSwap

\* The preview effect is run again when pairInfo changes: setPairInfo(null)
\* on null changes nothing, any other call sets a new object.
PairInfoFx(old, new) == IF ~old.loaded /\ ~new.loaded THEN {} ELSE {"preview"}

\* lines 88-103: the fetchReserves effect up to its first await.
FetchReservesEffect ==
    /\ fxQueue # <<>> /\ Head(fxQueue).fx = "fetch"
    /\ LET snap == Head(fxQueue).snap
       IN  /\ pairError' = ""
           /\ IF \/ Len(config.tokens[snap.tokenIn].packageHash) = 0
                 \/ Len(config.tokens[snap.tokenOut].packageHash) = 0
                 \/ snap.tokenIn = snap.tokenOut
              THEN /\ pairAddr' = NoAddr
                   /\ pairInfo' = NoPairInfo
                   /\ fetches' = fetches
                   /\ fxQueue' = Tail(fxQueue)
                          \o RenderFx(PairInfoFx(pairInfo, NoPairInfo),
                                      Snap(tokenIn, tokenOut, amountIn, slippage, NoPairInfo))
              ELSE /\ fetches' = fetches \cup
                          {[tin |-> snap.tokenIn, tout |-> snap.tokenOut, stage |-> "addr",
                            addr |-> NoAddr]}
                   /\ fxQueue' = Tail(fxQueue)
                   /\ UNCHANGED <<pairAddr, pairInfo>>
    /\ UNCHANGED <<tokenIn, tokenOut, amountIn, slippage, expectedOutput,
                   minimumReceived, previewArgs>>
    /\ UNCHANGED outsideSwap

\* lines 100-111: getPairAddressDebug has resolved.
PairAddressResolved(f) ==
    /\ fxQueue = <<>>
    /\ f \in fetches /\ f.stage = "addr"
    /\ LET addr == GetPairAddress(f.tin, f.tout)
       IN  /\ pairAddr' = addr
           /\ IF addr = NoAddr
              THEN /\ pairInfo' = NoPairInfo
                   /\ fetches' = fetches \ {f}
                   /\ fxQueue' = RenderFx(PairInfoFx(pairInfo, NoPairInfo),
                                          Snap(tokenIn, tokenOut, amountIn, slippage, NoPairInfo))
              ELSE /\ pairInfo' = pairInfo
                   /\ fetches' = (fetches \ {f}) \cup {[f EXCEPT !.stage = "pool", !.addr = addr]}
                   /\ fxQueue' = <<>>
    /\ UNCHANGED <<tokenIn, tokenOut, amountIn, slippage, pairError, expectedOutput,
                   minimumReceived, previewArgs>>
    /\ UNCHANGED outsideSwap

\* lines 113-152: getPairReserves, getPairTokens (and getPairStateDebug when
\* the tokens are null) have resolved; nothing is written between them.
PoolResolved(f) ==
    /\ fxQueue = <<>>
    /\ f \in fetches /\ f.stage = "pool"
    /\ fetches' = fetches \ {f}
    /\ LET res == GetPairReserves(chain, f.addr)
           pairTokens == GetPairTokens(chain, f.addr)
       IN  IF ResolveThrows(f.tin, f.tout, pairTokens, config)
           THEN /\ pairInfo' = NoPairInfo
                /\ pairAddr' = NoAddr
                /\ pairError' = "Failed to load pool"
                /\ fxQueue' = RenderFx(PairInfoFx(pairInfo, NoPairInfo),
                                       Snap(tokenIn, tokenOut, amountIn, slippage, NoPairInfo))
           ELSE LET t == ResolveTokens(f.tin, f.tout, pairTokens, config)
                    info == [loaded |-> TRUE, r0 |-> res.reserve0, r1 |-> res.reserve1,
                             token0 |-> t.token0, token1 |-> t.token1,
                             tin |-> f.tin, tout |-> f.tout, branch |-> t.branch]
                IN  /\ pairInfo' = info
                    /\ fxQueue' = RenderFx({"preview"},
                                           Snap(tokenIn, tokenOut, amountIn, slippage, info))
                    /\ UNCHANGED <<pairAddr, pairError>>
    /\ UNCHANGED <<tokenIn, tokenOut, amountIn, slippage, expectedOutput,
                   minimumReceived, previewArgs>>
    /\ UNCHANGED outsideSwap

\* lines 153-157: one of the awaited calls has rejected.
FetchFailed(f) ==
    /\ fxQueue = <<>>
    /\ f \in fetches
    /\ fetches' = fetches \ {f}
    /\ pairInfo' = NoPairInfo
    /\ pairAddr' = NoAddr
    /\ pairError' = "Failed to load pool"
    /\ fxQueue' = RenderFx(PairInfoFx(pairInfo, NoPairInfo),
                           Snap(tokenIn, tokenOut, amountIn, slippage, NoPairInfo))
    /\ UNCHANGED <<tokenIn, tokenOut, amountIn, slippage, expectedOutput,
                   minimumReceived, previewArgs>>
    /\ UNCHANGED outsideSwap

\* <input step="0.1">: the slippage has one decimal.
SlippageDigits == 1

\* lines 177-178
ReserveIn(ti, info) == IF ti = info.token0 THEN info.r0 ELSE info.r1

ReserveOut(ti, info) == IF ti = info.token0 THEN info.r1 ELSE info.r0

\* Mutant: the slippage is added.
SlippageMultiplier_Added(sl) ==
    Pow10(SlippageDigits + 2) + FloorScaled(ParseFloat(sl), SlippageDigits)

\* line 192, in 1/1000: 1 - slippage / 100.
SlippageMultiplier(sl) ==
    LET p == ParseFloat(sl)
        s == FloorScaled(p, SlippageDigits)
    IN  IF p.neg THEN Pow10(SlippageDigits + 2) + s ELSE Pow10(SlippageDigits + 2) - s

\* line 193: (x * slippageMultiplier).toFixed(4), x in 1/10000.
MinReceived(x, sl) ==
    IF ParseFloat(sl).nan THEN Fixed4NaN
    ELSE LET n == x * SlippageMultiplier(sl)
             den == Pow10(SlippageDigits + 2)
         IN  IF n >= 0 THEN Fixed4(RoundDiv(n, den)) ELSE Fixed4(0 - RoundDiv(0 - n, den))

\* lines 164-169: the preview is reset.
PreviewResets(snap) ==
    ~snap.pairInfo.loaded \/ Len(snap.amountIn) = 0 \/ LeqZero(ParseFloat(snap.amountIn))

\* line 174: BigInt(NaN) throws (into the catch of line 195).
PreviewThrows(snap) == ParseFloat(snap.amountIn).nan

\* lines 163-198: the preview effect. (priceImpact, a float shown to the user,
\* is not part of the state of the model.)
PreviewEffect ==
    /\ fxQueue # <<>> /\ Head(fxQueue).fx = "preview"
    /\ fxQueue' = Tail(fxQueue)
    /\ LET snap == Head(fxQueue).snap
       IN  IF PreviewResets(snap)
           THEN /\ expectedOutput' = Fixed4(0)
                /\ minimumReceived' = Fixed4(0)
                /\ previewArgs' = previewArgs
           ELSE IF PreviewThrows(snap)
           THEN UNCHANGED <<expectedOutput, minimumReceived, previewArgs>>
           ELSE LET decIn == config.tokens[snap.tokenIn].decimals
                    decOut == config.tokens[snap.tokenOut].decimals
                    amountInBigInt == FloorScaled(ParseFloat(snap.amountIn), decIn)
                    reserveIn == ReserveIn(snap.tokenIn, snap.pairInfo)
                    reserveOut == ReserveOut(snap.tokenIn, snap.pairInfo)
                    outputAmount == GetAmountOut(amountInBigInt, reserveIn, reserveOut)
                    outputFormatted == ScaleRound(outputAmount, 4 - decOut)
                IN  /\ expectedOutput' = Fixed4(outputFormatted)
                    /\ minimumReceived' = MinReceived(outputFormatted, snap.slippage)
                    /\ previewArgs' =
                           [called |-> TRUE, amountIn |-> amountInBigInt,
                            reserveIn |-> reserveIn, reserveOut |-> reserveOut,
                            tokenIn |-> snap.tokenIn, tokenOut |-> snap.tokenOut,
                            tin |-> snap.pairInfo.tin, tout |-> snap.pairInfo.tout,
                            branch |-> snap.pairInfo.branch]
    /\ UNCHANGED <<tokenIn, tokenOut, amountIn, slippage, pairInfo, pairAddr, pairError,
                   fetches>>
    /\ UNCHANGED outsideSwap

----------------------------------------------------------------------------
(* Deploys, the wallet and the toasts                                      *)

\* A deploy, by what its builder was given. The builders of the dex client
\* (makeSwapExactTokensForTokensDeploy, makeApproveTokenDeploy) are recorded
\* with their arguments; the deadline, a wall-clock time, is left out.
NoDeploy ==
    [made |-> FALSE, builder |-> "", target |-> <<>>, entryPoint |-> "",
     argName |-> "", argValue |-> <<>>, minOut |-> 0, path |-> <<>>, spender |-> <<>>,
     recipient |-> "", payment |-> <<>>, account |-> "", chainName |-> "",
     gasPrice |-> 0]

\* Deploy.toJSON(deploy) with its approvals; nothing before a broadcast.
NoJson == [sent |-> FALSE, deploy |-> NoDeploy, approvals |-> <<>>]

\* wallet.publicKey.toHex() and wallet.publicKey.accountHash().toHex()
ToHex(pk) == pk

AccountHashHex(pk) == "accounthash(" \o pk \o ")"

\* Mutant: the approval carries a signature of its own.
Approval_OtherSignature(pk, signature) ==
    [signer |-> ToHex(pk), signature |-> "sig-0"]

\* lines 245-248: the approval pushed on the deploy JSON.
Approval(pk, signature) == [signer |-> ToHex(pk), signature |-> signature]

\* lines 244-251: Deploy.toJSON(deploy) plus the approval.
SignedJson(deploy, pk, signature) ==
    [sent |-> TRUE, deploy |-> deploy, approvals |-> <<Approval(pk, signature)>>]

\* The wallets: none connected, one connected, and a public key without an
\* active key.
PublicKeyHex == "01aa"

Wallets ==
    { [activeKey |-> "", publicKey |-> ""],
      [activeKey |-> PublicKeyHex, publicKey |-> PublicKeyHex],
      [activeKey |-> "", publicKey |-> PublicKeyHex] }

\* What wallet.sign resolves with and what sendDeployRaw resolves with.
Signatures == {"sig-1", "sig-2"}

TxHashes == {"tx-1"}

\* Error messages (e.message) of a rejected wallet.sign or sendDeployRaw;
\* <<>> stands for an error without message.
UserRejectedMsg == <<"U", "s", "e", "r", " ", "r", "e", "j", "e", "c", "t", "e", "d">>

InsufficientMsg == <<"i", "n", "s", "u", "f", "f", "i", "c", "i", "e", "n", "t">>

SlippageMsg == <<"s", "l", "i", "p", "p", "a", "g", "e">>

SignErrors == {UserRejectedMsg \o <<" ", "i", "t">>, <<"l", "o", "c", "k", "e", "d">>, <<>>}

SendErrors == {<<"n", "o", " ">> \o InsufficientMsg, <<"b", "a", "d", " ">> \o SlippageMsg, <<"d", "o", "w", "n">>}

\* String.prototype.includes
Includes(s, w) == \E i \in 1..(Len(s) - Len(w) + 1) : SubSeq(s, i, i + Len(w) - 1) = w

\* e.message.slice(0, 100)
SliceLimit == 100

Slice(s) == SubSeq(s, 1, IF Len(s) < SliceLimit THEN Len(s) ELSE SliceLimit)

\* showToast(type, message, txHash) and removeToast(pendingToastId), as the
\* handler calls them. detail is the part of a message taken from e.message;
\* the pending ids are Date.now() ("first") and Date.now() + 1 ("second").
Show(type, message) ==
    [call |-> "show", type |-> type, message |-> message, detail |-> <<>>, txHash |-> ""]

ShowDetail(type, detail) ==
    [call |-> "show", type |-> type, message |-> "", detail |-> detail, txHash |-> ""]

ShowTx(type, message, txHash) ==
    [call |-> "show", type |-> type, message |-> message, detail |-> <<>>, txHash |-> txHash]

Remove(id) ==
    [call |-> "remove", type |-> "", message |-> id, detail |-> <<>>, txHash |-> ""]

\* setTimeout(() => onSuccess(), 2000): the timers a handler has scheduled, each
\* with its callback and its delay in milliseconds. App passes fetchBalance as
\* onSuccess.
RefreshDelay == 2000

\* Mutant: the refresh is scheduled a second time.
ScheduleRefresh_Twice(timers) ==
    timers \o <<[callback |-> "onSuccess", delay |-> RefreshDelay],
                [callback |-> "onSuccess", delay |-> RefreshDelay]>>

ScheduleRefresh(timers) ==
    Append(timers, [callback |-> "onSuccess", delay |-> RefreshDelay])

\* No handler has run.
NoOp ==
    [kind |-> "", pc |-> "idle", outcome |-> "", deploy |-> NoDeploy,
     signRequest |-> NoDeploy, signature |-> "", json |-> NoJson, toasts |-> <<>>,
     refresh |-> <<>>]

\* A handler that returned or threw before it awaited anything.
Returned(kind, outcome, toasts) ==
    [NoOp EXCEPT !.kind = kind, !.outcome = outcome, !.toasts = toasts]

----------------------------------------------------------------------------
(* services/lst.ts                                                         *)

\* Mutant: the package hash is used as it is configured.
normalizePackageHash_Keep(hash) == hash

\* lines 26-27
normalizePackageHash(hash) ==
    IF StartsWith(hash, HashPfx) THEN DropPrefix(hash, HashPfx)
    ELSE IF StartsWith(hash, ContractPackagePfx) THEN DropPrefix(hash, ContractPackagePfx)
    ELSE hash

\* lines 29-53 (args is the one named argument of Args.fromMap)
buildDeploy(packageHash, entryPoint, argName, argValue, paymentAmount, senderPublicKey, chainName) ==
    [NoDeploy EXCEPT !.made = TRUE, !.builder = "buildDeploy",
                     !.account = senderPublicKey, !.chainName = chainName,
                     !.gasPrice = 1, !.target = normalizePackageHash(packageHash),
                     !.entryPoint = entryPoint, !.argName = argName,
                     !.argValue = argValue, !.payment = paymentAmount]

\* lines 55-73
makeStakeDeploy(stakingManagerPackageHash, amt, senderPublicKey, chainName) ==
    buildDeploy(stakingManagerPackageHash, "stake", "cspr_amount", amt,
                <<"5", "0", "0", "0", "0", "0", "0", "0", "0", "0">>,
                senderPublicKey, chainName)

\* lines 75-93
makeUnstakeDeploy(stakingManagerPackageHash, amt, senderPublicKey, chainName) ==
    buildDeploy(stakingManagerPackageHash, "unstake", "scspr_amount", amt,
                <<"3", "0", "0", "0", "0", "0", "0", "0", "0", "0">>,
                senderPublicKey, chainName)

\* lines 95-113
makeWithdrawDeploy(stakingManagerPackageHash, id, senderPublicKey, chainName) ==
    buildDeploy(stakingManagerPackageHash, "withdraw_unstaked", "request_id", id,
                <<"2", "0", "0", "0", "0", "0", "0", "0", "0", "0">>,
                senderPublicKey, chainName)

\* The staking-manager hashes an environment may configure (line 19-24).
LstConfigs ==
    { [stakingManagerPackageHash |-> <<>>, stakingManagerContractHash |-> <<>>],
      [stakingManagerPackageHash |-> HashPfx \o <<"0", "b", "0", "b">>,
       stakingManagerContractHash |-> <<>>],
      [stakingManagerPackageHash |-> <<>>,
       stakingManagerContractHash |-> ContractPackagePfx \o <<"0", "c", "0", "c">>],
      [stakingManagerPackageHash |-> <<"0", "b", "0", "b">>,
       stakingManagerContractHash |-> HashPfx \o <<"0", "c", "0", "c">>],
      [stakingManagerPackageHash |-> ContractPfx \o <<"0", "b", "0", "b">>,
       stakingManagerContractHash |-> <<>>] }

----------------------------------------------------------------------------
(* Staking component                                                       *)

\* toRawAmount(csprAmount, 9), toRawAmount(scsprAmount, 9)
CsprDecimals == 9

\* Number(csprAmount) < 100
MinStake == 100

\* a < k for a Number a and an integer k > 0; false for NaN.
LessThan(a, k) ==
    ~a.nan /\ ((a.neg /\ ~IsZero(a)) \/ DigitsToInt(StripZeros(a.ip)) < k)

\* Mutant: every finite number is converted, whatever its sign.
toRawAmount_Unsigned(value, decimals) ==
    IF NumberOf(value).nan THEN <<"0">> ELSE BigIntDigits(NumberOf(value), decimals)

\* lines 16-21: the digits of the bigint returned.
toRawAmount(value, decimals) ==
    LET num == NumberOf(value)
    IN  IF num.nan \/ LeqZero(num) THEN <<"0">>
        ELSE BigIntDigits(num, decimals)

\* lines 31-34
stakingManagerHash ==
    IF Len(lstConfig.stakingManagerPackageHash) > 0
    THEN lstConfig.stakingManagerPackageHash
    ELSE lstConfig.stakingManagerContractHash

\* lines 36-42: whether ensureConfig() returns true (it shows a toast otherwise).
ensureConfig == Len(stakingManagerHash) > 0

\* !wallet.activeKey || !wallet.publicKey
Connected == wallet.activeKey # "" /\ wallet.publicKey # ""

\* The values the number inputs of the Staking component are given. (For each
\* of them num * 10 ** 9 is exact in double precision, as the digit
\* arithmetic of toRawAmount is.)
StakeAmounts ==
    { <<>>, <<"0">>, <<"-", "5">>, <<"9", "9", ".", "9">>, <<"1", "0", "0">>,
      <<"1", "2", "8", ".", "5">> }

RequestIds == { <<>>, <<"7">>, <<"-", "1">>, <<"1", ".", "5">> }

\* lines 178-181: the stake input sets both amounts.
StakeInputChanged(s) ==
    /\ component = "Staking" /\ op.pc = "idle"
    /\ s # csprAmount
    /\ csprAmount' = s
    /\ scsprAmount' = s
    /\ UNCHANGED <<wallet, lstConfig, component, loading, op, requestId, token, amount>>
    /\ UNCHANGED outsideTx

\* line 195
UnstakeInputChanged(s) ==
    /\ component = "Staking" /\ op.pc = "idle"
    /\ s # scsprAmount
    /\ scsprAmount' = s
    /\ UNCHANGED <<wallet, lstConfig, component, loading, op, csprAmount, requestId,
                   token, amount>>
    /\ UNCHANGED outsideTx

\* line 213
setRequestId(s) ==
    /\ component = "Staking" /\ op.pc = "idle"
    /\ s # requestId
    /\ requestId' = s
    /\ UNCHANGED <<wallet, lstConfig, component, loading, op, csprAmount, scsprAmount,
                   token, amount>>
    /\ UNCHANGED outsideTx

\* The label sendDeploy is given by each handler.
Label(kind) ==
    CASE kind = "stake" -> "Stake"
      [] kind = "unstake" -> "Unstake"
      [] OTHER -> "Withdraw"

\* lines 44-50: sendDeploy up to `await wallet.sign(deploy)`, after
\* setLoading(true) of the handler.
SendDeployStarts(kind, deploy) ==
    /\ loading' = TRUE
    /\ op' = [NoOp EXCEPT !.kind = kind, !.pc = "sign", !.deploy = deploy,
                          !.signRequest = deploy,
                          !.toasts = <<Show("pending", "Please sign the " \o Label(kind)
                                                \o " deploy in your wallet...")>>]

\* A handler of the Staking component returns after an error toast.
StakingRefuses(kind, message) ==
    /\ op' = Returned(kind, "guard", <<Show("error", message)>>)
    /\ loading' = loading

\* lines 76-108, up to the first await.
handleStake ==
    /\ component = "Staking" /\ op.pc = "idle"
    /\ IF ~Connected THEN StakingRefuses("stake", "Please connect your wallet first")
       ELSE IF ~ensureConfig
       THEN StakingRefuses("stake", "Missing LST contract hashes in .env")
       ELSE IF AllZero(toRawAmount(csprAmount, CsprDecimals))
       THEN StakingRefuses("stake", "Enter a valid CSPR amount")
       ELSE IF LessThan(NumberOf(csprAmount), MinStake)
       THEN StakingRefuses("stake", "Minimum stake is 100 CSPR")
       ELSE SendDeployStarts("stake",
                makeStakeDeploy(stakingManagerHash, toRawAmount(csprAmount, CsprDecimals),
                                wallet.publicKey, config.chainName))
    /\ UNCHANGED <<wallet, lstConfig, component, csprAmount, scsprAmount, requestId,
                   token, amount>>
    /\ UNCHANGED outsideTx

\* lines 110-138, up to the first await.
handleUnstake ==
    /\ component = "Staking" /\ op.pc = "idle"
    /\ IF ~Connected THEN StakingRefuses("unstake", "Please connect your wallet first")
       ELSE IF ~ensureConfig
       THEN StakingRefuses("unstake", "Missing LST contract hashes in .env")
       ELSE IF AllZero(toRawAmount(scsprAmount, CsprDecimals))
       THEN StakingRefuses("unstake", "Enter a valid sCSPR amount")
       ELSE SendDeployStarts("unstake",
                makeUnstakeDeploy(stakingManagerHash,
                                  toRawAmount(scsprAmount, CsprDecimals),
                                  wallet.publicKey, config.chainName))
    /\ UNCHANGED <<wallet, lstConfig, component, csprAmount, scsprAmount, requestId,
                   token, amount>>
    /\ UNCHANGED outsideTx

\* BigInt(s) of a string: a SyntaxError unless s is empty or an integer numeral.
BigIntThrows(s) ==
    LET body == IF Len(s) > 0 /\ s[1] \in {"-", "+"} THEN Tail(s) ELSE s
    IN  Len(s) > 0 /\ (Len(body) = 0 \/ \E i \in 1..Len(body) : ~IsDigit(body[i]))

\* lines 140-168, up to the first await. BigInt(requestId || '0') of line 147
\* is outside the try block: when it throws the handler ends there.
handleWithdraw ==
    /\ component = "Staking" /\ op.pc = "idle"
    /\ IF ~Connected THEN StakingRefuses("withdraw", "Please connect your wallet first")
       ELSE IF ~ensureConfig
       THEN StakingRefuses("withdraw", "Missing LST contract hashes in .env")
       ELSE IF BigIntThrows(requestId)
       THEN op' = Returned("withdraw", "threw", <<>>) /\ loading' = loading
       ELSE IF Len(requestId) = 0 \/ (requestId[1] = "-" /\ ~AllZero(Tail(requestId)))
       THEN StakingRefuses("withdraw", "Enter a valid request ID")
       ELSE SendDeployStarts("withdraw",
                makeWithdrawDeploy(stakingManagerHash,
                                   StripZeros(ParseFloat(requestId).ip),
                                   wallet.publicKey, config.chainName))
    /\ UNCHANGED <<wallet, lstConfig, component, csprAmount, scsprAmount, requestId,
                   token, amount>>
    /\ UNCHANGED outsideTx

\* lines 52-64: wallet.sign resolved; the deploy is broadcast.
StakingSigned(signature) ==
    /\ component = "Staking" /\ op.pc = "sign"
    /\ op' = [op EXCEPT !.pc = "send", !.signature = signature,
                        !.json = SignedJson(op.deploy, wallet.publicKey, signature),
                        !.toasts = @ \o <<Remove("first"),
                                          Show("pending", "Broadcasting " \o Label(op.kind)
                                                   \o " to network...")>>]
    /\ UNCHANGED <<wallet, lstConfig, component, loading, csprAmount, scsprAmount,
                   requestId, token, amount>>
    /\ UNCHANGED outsideTx

\* lines 69-73: the error toast of sendDeploy.
StakingErrorToast(kind, message) ==
    IF Len(Slice(message)) > 0 THEN ShowDetail("error", Slice(message))
    ELSE Show("error", Label(kind) \o " failed")

\* lines 69-73, then the catch and finally of the handler: wallet.sign rejected.
StakingSignRejected(message) ==
    /\ component = "Staking" /\ op.pc = "sign"
    /\ op' = [op EXCEPT !.pc = "idle", !.outcome = "rejected",
                        !.toasts = @ \o <<Remove("first"),
                                          StakingErrorToast(op.kind, message)>>]
    /\ loading' = FALSE
    /\ UNCHANGED <<wallet, lstConfig, component, csprAmount, scsprAmount, requestId,
                   token, amount>>
    /\ UNCHANGED outsideTx

\* lines 64-68, then the finally of the handler: sendDeployRaw resolved.
StakingSent(txHash) ==
    /\ component = "Staking" /\ op.pc = "send"
    /\ op' = [op EXCEPT !.pc = "idle", !.outcome = "sent", !.refresh = ScheduleRefresh(@),
                        !.toasts = @ \o <<Remove("second"),
                                          ShowTx("success", Label(op.kind)
                                                   \o " submitted successfully!", txHash)>>]
    /\ loading' = FALSE
    /\ UNCHANGED <<wallet, lstConfig, component, csprAmount, scsprAmount, requestId,
                   token, amount>>
    /\ UNCHANGED outsideTx

\* Mutant: the handler has no finally block.
StakingSendRejected_NoFinally(message) ==
    /\ component = "Staking" /\ op.pc = "send"
    /\ op' = [op EXCEPT !.pc = "idle", !.outcome = "failed",
                        !.toasts = @ \o <<Remove("second"),
                                          StakingErrorToast(op.kind, message)>>]
    /\ UNCHANGED <<wallet, lstConfig, component, loading, csprAmount, scsprAmount,
                   requestId, token, amount>>
    /\ UNCHANGED outsideTx

\* lines 69-73, then the catch and finally of the handler: sendDeployRaw rejected.
StakingSendRejected(message) ==
    /\ component = "Staking" /\ op.pc = "send"
    /\ op' = [op EXCEPT !.pc = "idle", !.outcome = "failed",
                        !.toasts = @ \o <<Remove("second"),
                                          StakingErrorToast(op.kind, message)>>]
    /\ loading' = FALSE
    /\ UNCHANGED <<wallet, lstConfig, component, csprAmount, scsprAmount, requestId,
                   token, amount>>
    /\ UNCHANGED outsideTx

----------------------------------------------------------------------------
(* Approve component                                                       *)

\* The message of the RangeError BigInt() throws for NaN or a fraction.
RangeErrorMsg == <<"n", "o", "t", " ", "a", "n", " ", "i", "n", "t", "e", "g", "e", "r">>

ApproveAmounts == { <<>>, <<"1", "0", "0", "0">>, <<"-", "5">>, <<"0", ".", "0", "0", "0", "1">> }

\* line 94
setToken(s) ==
    /\ component = "Approve" /\ op.pc = "idle"
    /\ s \in SymbolSet(config) /\ s # token
    /\ token' = s
    /\ UNCHANGED <<wallet, lstConfig, component, loading, op, csprAmount, scsprAmount,
                   requestId, amount>>
    /\ UNCHANGED outsideTx

\* line 105
setAmount(s) ==
    /\ component = "Approve" /\ op.pc = "idle"
    /\ s # amount
    /\ amount' = s
    /\ UNCHANGED <<wallet, lstConfig, component, loading, op, csprAmount, scsprAmount,
                   requestId, token>>
    /\ UNCHANGED outsideTx

\* line 33: BigInt(parseFloat(amount) * (10 ** decimals)) throws.
ApproveAmountThrows(a, decimals) ==
    ParseFloat(a).nan \/ ~IsIntegerScaled(ParseFloat(a), decimals)

\* line 33: the digits of amountBI.
ApproveAmount(a, decimals) ==
    LET n == ParseFloat(a)
    IN  IF n.neg /\ ~IsZero(n) THEN <<"-">> \o BigIntDigits(n, decimals)
        ELSE BigIntDigits(n, decimals)

\* lines 75-79
ApproveErrorToast(message) ==
    IF Includes(message, UserRejectedMsg) THEN Show("error", "Approval rejected by user")
    ELSE IF Len(Slice(message)) > 0 THEN ShowDetail("error", Slice(message))
    ELSE Show("error", "Approval failed")

\* lines 23-50, up to `await wallet.sign(deploy)`.
handleApprove ==
    /\ component = "Approve" /\ op.pc = "idle"
    /\ LET decimals == config.tokens[token].decimals
       IN  IF ~Connected
           THEN /\ op' = Returned("approve", "guard",
                                  <<Show("error", "Please connect your wallet first")>>)
                /\ loading' = loading
           ELSE IF ApproveAmountThrows(amount, decimals)
           THEN /\ op' = Returned("approve", "threw", <<ApproveErrorToast(RangeErrorMsg)>>)
                /\ loading' = FALSE
           ELSE LET deploy ==
                        [NoDeploy EXCEPT !.made = TRUE, !.builder = "makeApproveTokenDeploy",
                                         !.target = config.tokens[token].packageHash,
                                         !.spender = config.routerPackageHash,
                                         !.argValue = ApproveAmount(amount, decimals),
                                         !.account = wallet.publicKey]
                IN  /\ op' = [NoOp EXCEPT !.kind = "approve", !.pc = "sign",
                                          !.deploy = deploy, !.signRequest = deploy,
                                          !.toasts = <<Show("pending",
                                              "Please sign the approval in your wallet...")>>]
                    /\ loading' = TRUE
    /\ UNCHANGED <<wallet, lstConfig, component, csprAmount, scsprAmount, requestId,
                   token, amount>>
    /\ UNCHANGED outsideTx

\* lines 52-67: wallet.sign resolved; the deploy is broadcast.
ApproveSigned(signature) ==
    /\ component = "Approve" /\ op.pc = "sign"
    /\ op' = [op EXCEPT !.pc = "send", !.signature = signature,
                        !.json = SignedJson(op.deploy, wallet.publicKey, signature),
                        !.toasts = @ \o <<Remove("first"),
                                          Show("pending", "Broadcasting approval to network...")>>]
    /\ UNCHANGED <<wallet, lstConfig, component, loading, csprAmount, scsprAmount,
                   requestId, token, amount>>
    /\ UNCHANGED outsideTx

\* lines 74-86: wallet.sign rejected.
ApproveSignRejected(message) ==
    /\ component = "Approve" /\ op.pc = "sign"
    /\ op' = [op EXCEPT !.pc = "idle", !.outcome = "rejected",
                        !.toasts = @ \o <<Remove("first"), ApproveErrorToast(message)>>]
    /\ loading' = FALSE
    /\ UNCHANGED <<wallet, lstConfig, component, csprAmount, scsprAmount, requestId,
                   token, amount>>
    /\ UNCHANGED outsideTx

\* lines 69-73 and 84-86: sendDeployRaw resolved.
ApproveSent(txHash) ==
    /\ component = "Approve" /\ op.pc = "send"
    /\ op' = [op EXCEPT !.pc = "idle", !.outcome = "sent", !.refresh = ScheduleRefresh(@),
                        !.toasts = @ \o <<Remove("second"),
                                          ShowTx("success", "Approval submitted successfully!",
                                                 txHash)>>]
    /\ loading' = FALSE
    /\ UNCHANGED <<wallet, lstConfig, component, csprAmount, scsprAmount, requestId,
                   token, amount>>
    /\ UNCHANGED outsideTx

\* lines 74-86: sendDeployRaw rejected.
ApproveSendRejected(message) ==
    /\ component = "Approve" /\ op.pc = "send"
    /\ op' = [op EXCEPT !.pc = "idle", !.outcome = "failed",
                        !.toasts = @ \o <<Remove("second"), ApproveErrorToast(message)>>]
    /\ loading' = FALSE
    /\ UNCHANGED <<wallet, lstConfig, component, csprAmount, scsprAmount, requestId,
                   token, amount>>
    /\ UNCHANGED outsideTx

----------------------------------------------------------------------------
(* components/Swap.tsx: the amount, the slippage and handleSwap            *)

\* What the amount input (line 346) and the slippage input (line 423) are
\* given. (On these values the double arithmetic of the preview and of
\* handleSwap gives the results of the digit arithmetic used here.)
AmountStrings ==
    { <<>>, <<"a", "b", "c">>, <<"0">>, <<"-", "5">>, <<"1", "0">>, <<"2", ".", "5">> }

SlippageStrings ==
    { <<>>, <<"0">>, <<"0", ".", "5">>, <<"5", "0">>, <<"1", "0", "0">>, <<"1", "5", "0">> }

\* line 346
setAmountIn(s) ==
    /\ component = "Swap" /\ op.pc = "idle"
    /\ fxQueue = <<>>
    /\ s # amountIn
    /\ amountIn' = s
    /\ fxQueue' = RenderFx({"preview"}, Snap(tokenIn, tokenOut, s, slippage, pairInfo))
    /\ UNCHANGED <<tokenIn, tokenOut, slippage, pairInfo, pairAddr, pairError,
                   expectedOutput, minimumReceived, fetches, previewArgs>>
    /\ UNCHANGED outsideSwap

\* line 423
setSlippage(s) ==
    /\ component = "Swap" /\ op.pc = "idle"
    /\ fxQueue = <<>>
    /\ s # slippage
    /\ slippage' = s
    /\ fxQueue' = RenderFx({"preview"}, Snap(tokenIn, tokenOut, amountIn, s, pairInfo))
    /\ UNCHANGED <<tokenIn, tokenOut, amountIn, pairInfo, pairAddr, pairError,
                   expectedOutput, minimumReceived, fetches, previewArgs>>
    /\ UNCHANGED outsideSwap

\* lines 217-218: BigInt(Math.floor(NaN)) throws.
SwapAmountsThrow == ParseFloat(amountIn).nan \/ minimumReceived.nan

\* line 218: Math.floor(parseFloat(minimumReceived) * (10 ** decOut))
AmountOutMin(minimum, decOut) == ScaleFloor(minimum.u, decOut - 4)

\* lines 269-279
SwapErrorToast(message) ==
    IF Includes(message, UserRejectedMsg) THEN Show("error", "Transaction rejected by user")
    ELSE IF Includes(message, InsufficientMsg)
    THEN Show("error", "Insufficient balance or allowance")
    ELSE IF Includes(message, SlippageMsg) THEN Show("error", "Slippage tolerance exceeded")
    ELSE IF Len(message) > 0 THEN ShowDetail("error", Slice(message))
    ELSE Show("error", "Transaction failed")

\* Mutant: only a negative amount is refused.
AmountRefused_Negative(a) == ~ParseFloat(a).nan /\ ParseFloat(a).neg

\* line 206: parseFloat(amountIn) <= 0
AmountRefused(a) == LeqZero(ParseFloat(a))

\* lines 200-236, up to `await wallet.sign(deploy)`. (The handler is run as a
\* function: the button of line 446 is enabled in fewer states.)
handleSwap ==
    /\ component = "Swap" /\ op.pc = "idle"
    /\ fxQueue = <<>>
    /\ IF wallet.publicKey = ""
       THEN /\ op' = Returned("swap", "guard",
                              <<Show("error", "Please connect your wallet first")>>)
            /\ loading' = loading
       ELSE IF AmountRefused(amountIn)
       THEN /\ op' = Returned("swap", "guard",
                              <<Show("error", "Please enter a valid amount")>>)
            /\ loading' = loading
       ELSE IF SwapAmountsThrow
       THEN /\ op' = Returned("swap", "threw", <<SwapErrorToast(RangeErrorMsg)>>)
            /\ loading' = FALSE
       ELSE LET decIn == config.tokens[tokenIn].decimals
                decOut == config.tokens[tokenOut].decimals
                deploy ==
                    [NoDeploy EXCEPT
                        !.made = TRUE, !.builder = "makeSwapExactTokensForTokensDeploy",
                        !.argValue = BigIntDigits(ParseFloat(amountIn), decIn),
                        !.minOut = AmountOutMin(minimumReceived, decOut),
                        !.path = <<config.tokens[tokenIn].packageHash,
                                   config.tokens[tokenOut].packageHash>>,
                        !.recipient = "account-hash-" \o AccountHashHex(wallet.publicKey),
                        !.account = wallet.publicKey]
            IN  /\ op' = [NoOp EXCEPT !.kind = "swap", !.pc = "sign", !.deploy = deploy,
                                      !.signRequest = deploy,
                                      !.toasts = <<Show("pending",
                                          "Please sign the transaction in your wallet...")>>]
                /\ loading' = TRUE
    /\ UNCHANGED <<wallet, lstConfig, component, csprAmount, scsprAmount, requestId,
                   token, amount>>
    /\ UNCHANGED outsideTx

\* lines 236-254: wallet.sign resolved; the deploy is broadcast.
SwapSigned(signature) ==
    /\ component = "Swap" /\ op.pc = "sign"
    /\ op' = [op EXCEPT !.pc = "send", !.signature = signature,
                        !.json = SignedJson(op.deploy, wallet.publicKey, signature),
                        !.toasts = @ \o <<Remove("first"),
                                          Show("pending",
                                               "Broadcasting transaction to network...")>>]
    /\ UNCHANGED <<wallet, lstConfig, component, loading, csprAmount, scsprAmount,
                   requestId, token, amount>>
    /\ UNCHANGED outsideTx

\* lines 265-286: wallet.sign rejected.
SwapSignRejected(message) ==
    /\ component = "Swap" /\ op.pc = "sign"
    /\ op' = [op EXCEPT !.pc = "idle", !.outcome = "rejected",
                        !.toasts = @ \o <<Remove("first"), SwapErrorToast(message)>>]
    /\ loading' = FALSE
    /\ UNCHANGED <<wallet, lstConfig, component, csprAmount, scsprAmount, requestId,
                   token, amount>>
    /\ UNCHANGED outsideTx

\* lines 256-264 and 284-286: sendDeployRaw resolved.
SwapSent(txHash) ==
    /\ component = "Swap" /\ op.pc = "send"
    /\ op' = [op EXCEPT !.pc = "idle", !.outcome = "sent", !.refresh = ScheduleRefresh(@),
                        !.toasts = @ \o <<Remove("second"),
                                          ShowTx("success", "Swap submitted successfully!",
                                                 txHash)>>]
    /\ loading' = FALSE
    /\ UNCHANGED <<wallet, lstConfig, component, csprAmount, scsprAmount, requestId,
                   token, amount>>
    /\ UNCHANGED outsideTx

\* lines 265-286: sendDeployRaw rejected.
SwapSendRejected(message) ==
    /\ component = "Swap" /\ op.pc = "send"
    /\ op' = [op EXCEPT !.pc = "idle", !.outcome = "failed",
                        !.toasts = @ \o <<Remove("second"), SwapErrorToast(message)>>]
    /\ loading' = FALSE
    /\ UNCHANGED <<wallet, lstConfig, component, csprAmount, scsprAmount, requestId,
                   token, amount>>
    /\ UNCHANGED outsideTx

----------------------------------------------------------------------------
(* App.tsx: the balances and their polling                                 *)

RECURSIVE PadStart(_, _)
\* String.prototype.padStart(n, '0')
PadStart(s, n) == IF Len(s) >= n THEN s ELSE PadStart(<<"0">> \o s, n)

RECURSIVE StripTrailingZeros(_)
\* replace(/0+$/, '')
StripTrailingZeros(s) ==
    IF Len(s) > 0 /\ s[Len(s)] = "0" THEN StripTrailingZeros(SubSeq(s, 1, Len(s) - 1))
    ELSE s

\* lines 22-30 (value is the decimal digits of the bigint)
formatTokenBalance(value, decimals, precision) ==
    IF decimals <= 0 THEN value
    ELSE LET padded == PadStart(value, decimals + 1)
             whole == SubSeq(padded, 1, Len(padded) - decimals)
             stripped == StripTrailingZeros(SubSeq(padded, Len(padded) - decimals + 1,
                                                   Len(padded)))
             fraction == IF precision >= 0 /\ Len(stripped) > precision
                         THEN SubSeq(stripped, 1, precision)
                         ELSE stripped
         IN  IF Len(fraction) > 0 THEN whole \o <<".">> \o fraction ELSE whole

\* What dex.getCSPRBalance and dex.getTokenBalance resolve with.
Balances == {<<"0">>, <<"1", "2", "3", "4", "5", "6", "0", "0", "0", "0">>}

\* The accounts of the wallet, and the states useWallet() reports: no key, both
\* keys of an account, or a public key without an active key.
Accounts == {PublicKeyHex, "01bb"}

WalletStates ==
    {[activeKey |-> "", publicKey |-> ""]}
        \cup {[activeKey |-> a, publicKey |-> a] : a \in Accounts}
        \cup {[activeKey |-> "", publicKey |-> a] : a \in Accounts}

\* The number of intervals the model lets App create.
MaxTimers == 3

\* setInterval(fetchBalance, 10000)
PollPeriod == 10000

\* line 64: the dependencies of the polling effect in the current render.
Deps ==
    [isConnected |-> isConnected, activeKey |-> wallet.activeKey,
     publicKey |-> wallet.publicKey]

\* line 59, negated: the effect does not return early.
Polls(d) == d.isConnected /\ d.activeKey # "" /\ d.publicKey # ""

\* No fetchBalance has been called.
NoFetch == [by |-> "", activeKey |-> "", publicKey |-> "", pc |-> "none"]

\* lines 37-41: fetchBalance called by the effect or by an interval, with the
\* wallet of the render that created it; only the latest call is kept.
fetchBalance(by, w, latest) ==
    IF w.activeKey # "" /\ w.publicKey # ""
    THEN [by |-> by, activeKey |-> w.activeKey, publicKey |-> w.publicKey, pc |-> "cspr"]
    ELSE latest

\* line 61: the interval, calling the fetchBalance of the render of wallet w.
setInterval(id, w) ==
    [id |-> id, callback |-> "fetchBalance", period |-> PollPeriod,
     activeKey |-> w.activeKey, publicKey |-> w.publicKey]

\* Mutant: the cleanup leaves the interval running.
clearInterval_Keep(timers, id) == timers

\* line 62: clearInterval(i); id 0 stands for an effect that returned no cleanup.
clearInterval(timers, id) == {t \in timers : t.id # id}

\* What the handlers and effects of App leave alone.
outsideApp ==
    <<rpcVars, dexVars, swapVars, lstConfig, component, loading, op, csprAmount,
      scsprAmount, requestId, token, amount>>

\* lines 58-64: the dependencies changed; the cleanup of the previous run,
\* then the effect.
PollingEffect ==
    /\ pollDeps # Deps
    /\ pollDeps' = Deps
    /\ IF Polls(Deps)
       THEN /\ balanceFetch' = fetchBalance("effect", wallet, balanceFetch)
            /\ timerSeq' = timerSeq + 1
            /\ intervals' = clearInterval(intervals, pollCleanup)
                                \cup {setInterval(timerSeq + 1, wallet)}
            /\ pollCleanup' = timerSeq + 1
       ELSE /\ intervals' = clearInterval(intervals, pollCleanup)
            /\ pollCleanup' = 0
            /\ UNCHANGED <<timerSeq, balanceFetch>>
    /\ UNCHANGED <<isConnected, wallet, balance, tokenBalances>>
    /\ UNCHANGED outsideApp

\* line 61: ten seconds have passed on an interval that is not cleared.
IntervalFires(t) ==
    /\ t \in intervals
    /\ balanceFetch' = fetchBalance("interval", t, balanceFetch)
    /\ UNCHANGED <<isConnected, wallet, pollDeps, intervals, pollCleanup, timerSeq,
                   balance, tokenBalances>>
    /\ UNCHANGED outsideApp

\* lines 41-42: dex.getCSPRBalance resolved.
BalanceResolved(bal) ==
    /\ balanceFetch.pc = "cspr"
    /\ balance' = formatTokenBalance(bal, 9, 4)
    /\ balanceFetch' = [balanceFetch EXCEPT !.pc = "tokens"]
    /\ UNCHANGED <<isConnected, wallet, pollDeps, intervals, pollCleanup, timerSeq,
                   tokenBalances>>
    /\ UNCHANGED outsideApp

\* lines 45-51: every dex.getTokenBalance resolved (each with the same amount).
TokenBalancesResolved(bal) ==
    /\ balanceFetch.pc = "tokens"
    /\ LET entries == {s \in DOMAIN config.tokens : Len(config.tokens[s].contractHash) > 0}
       IN  tokenBalances' =
               [s \in entries |-> formatTokenBalance(bal, config.tokens[s].decimals, 4)]
    /\ balanceFetch' = [balanceFetch EXCEPT !.pc = "done"]
    /\ UNCHANGED <<isConnected, wallet, pollDeps, intervals, pollCleanup, timerSeq,
                   balance>>
    /\ UNCHANGED outsideApp

\* line 53: a balance request rejected; the error is logged.
BalanceFailed ==
    /\ balanceFetch.pc \in {"cspr", "tokens"}
    /\ balanceFetch' = [balanceFetch EXCEPT !.pc = "failed"]
    /\ UNCHANGED <<isConnected, wallet, pollDeps, intervals, pollCleanup, timerSeq,
                   balance, tokenBalances>>
    /\ UNCHANGED outsideApp

\* useWallet() reports a connection, with the keys it has by then.
Connect(w) ==
    /\ ~isConnected /\ timerSeq < MaxTimers
    /\ isConnected' = TRUE
    /\ wallet' = w
    /\ UNCHANGED <<pollDeps, intervals, pollCleanup, timerSeq, balanceFetch, balance,
                   tokenBalances>>
    /\ UNCHANGED outsideApp

\* useWallet() reports the disconnection, keeping or dropping the keys.
Disconnect(w) ==
    /\ isConnected /\ timerSeq < MaxTimers
    /\ w \in {wallet, [activeKey |-> "", publicKey |-> ""]}
    /\ isConnected' = FALSE
    /\ wallet' = w
    /\ UNCHANGED <<pollDeps, intervals, pollCleanup, timerSeq, balanceFetch, balance,
                   tokenBalances>>
    /\ UNCHANGED outsideApp

\* useWallet() reports another active key or public key.
AccountChanged(w) ==
    /\ w # wallet /\ timerSeq < MaxTimers
    /\ wallet' = w
    /\ UNCHANGED <<isConnected, pollDeps, intervals, pollCleanup, timerSeq,
                   balanceFetch, balance, tokenBalances>>
    /\ UNCHANGED outsideApp

\* App after its first render and the first run of the polling effect, for the
\* wallet it was rendered with.
AppMounted ==
    /\ isConnected = (wallet.activeKey # "")
    /\ pollDeps = Deps
    /\ timerSeq = (IF Polls(Deps) THEN 1 ELSE 0)
    /\ pollCleanup = timerSeq
    /\ intervals = (IF Polls(Deps) THEN {setInterval(1, wallet)} ELSE {})
    /\ balanceFetch = fetchBalance("effect", wallet, NoFetch)
    /\ balance = <<"0">>
    /\ tokenBalances = [s \in {} |-> <<>>]

----------------------------------------------------------------------------
(* Initial states                                                          *)

\* The state of a component after its first render: the defaults of its
\* useState calls, no handler run yet, App mounted around it.
MountedState ==
    /\ AppMounted
    /\ loading = FALSE
    /\ op = NoOp
    /\ csprAmount = <<"1", "0", "0">>
    /\ scsprAmount = <<"1", "0", "0">>
    /\ requestId = <<>>
    /\ token = config.symbols[1]
    /\ amount = <<"1", "0", "0", "0">>

NoWallet == [activeKey |-> "", publicKey |-> ""]

NoLstConfig == [stakingManagerPackageHash |-> <<>>, stakingManagerContractHash |-> <<>>]

\* Component c mounted, no wallet connected and no staking manager configured.
TxAtRest(c) ==
    /\ wallet = NoWallet
    /\ lstConfig = NoLstConfig
    /\ component = c
    /\ MountedState

----------------------------------------------------------------------------
(* Specifications                                                          *)

InitRpc ==
    /\ rpcEnv \in [NODE_ADDRESS : NodeAddresses, VITE_NODE_ADDRESS : NodeAddresses]
    /\ rpcReq = NoReq
    /\ rpcPc = "idle"
    /\ upstreamReqs = <<>>
    /\ upstream = NoUpstream
    /\ rpcRes = FreshRes

IdleRpc ==
    /\ rpcEnv = [NODE_ADDRESS |-> Undef, VITE_NODE_ADDRESS |-> Undef]
    /\ rpcReq = NoReq
    /\ rpcPc = "idle"
    /\ upstreamReqs = <<>>
    /\ upstream = NoUpstream
    /\ rpcRes = FreshRes

NextRpc ==
    \/ \E m \in Methods, b \in Bodies : handler(m, b)
    \/ \E st \in StatusCodes, ct \in ContentTypes : FetchResolve(st, ct)
    \/ FetchReject
    \/ \E text \in UpstreamTexts : TextResolve(text)
    \/ TextReject
    \/ NextInvocation

\* The Swap component before it is used: nothing selected by the user yet,
\* no effect to run.
SwapAtRest ==
    /\ tokenIn = Symbols[1]
    /\ tokenOut = Symbols[2]
    /\ amountIn = <<"1", "0">>
    /\ slippage = <<"0", ".", "5">>
    /\ pairInfo = NoPairInfo
    /\ pairAddr = NoAddr
    /\ pairError = ""
    /\ expectedOutput = Fixed4(0)
    /\ minimumReceived = Fixed4(0)
    /\ fetches = {}
    /\ previewArgs = NoArgs
    /\ fxQueue = <<>>

DefaultChain == [readable |-> TRUE, style0 |-> "package", style1 |-> "package", aIsToken0 |-> TRUE]

\* The relay alone.
InitRelay ==
    InitRpc /\ config = PoolConfig /\ chain = DefaultChain /\ SwapAtRest /\ TxAtRest("Swap")

SpecRpc == InitRelay /\ [][NextRpc]_vars

\* The Swap component, mounted: token selection, pool loading and preview.
InitPool ==
    /\ IdleRpc /\ config = PoolConfig /\ chain \in Chains /\ InitSwapState(config)
    /\ TxAtRest("Swap")

NextPool ==
    \/ \E s \in SymbolSet(config) : setTokenInByUser(s)
    \/ \E s \in SymbolSet(config) : setTokenOutByUser(s)
    \/ handleSwapDirection
    \/ SameTokenEffect
    \/ FetchReservesEffect
    \/ \E f \in fetches : PairAddressResolved(f)
    \/ \E f \in fetches : PoolResolved(f)
    \/ \E f \in fetches : FetchFailed(f)
    \/ PreviewEffect

SpecPool == InitPool /\ [][NextPool]_vars

\* The Swap component on one chain.
InitSelect ==
    /\ IdleRpc /\ config = PoolConfig /\ chain = DefaultChain /\ InitSwapState(config)
    /\ TxAtRest("Swap")

SpecSelect == InitSelect /\ [][NextPool]_vars

\* Package hashes as a configuration may write them: bare, or with the
\* 'hash-' or 'contract-package-' prefix, in either letter case.
KeyHexes == { <<"0", "a", "1", "0">>, <<"0", "a", "0", "2">>, <<"F", "f", "0", "0">> }

KeyStrings ==
    {p \o h : p \in {<<>>, HashPfx, ContractPackagePfx}, h \in KeyHexes}
        \cup {HashPfx \o <<"0", "A", "1", "0">>}

KeyConfigs ==
    { [symbols |-> <<"WCSPR", "ECTO">>, chainName |-> "casper-test",
       routerPackageHash |-> HashPfx \o <<"d", "e", "0", "0">>,
       tokens |-> [WCSPR |-> [packageHash |-> a, contractHash |-> <<>>, decimals |-> 3],
                   ECTO |-> [packageHash |-> b, contractHash |-> <<>>, decimals |-> 2]]]
        : a \in KeyStrings, b \in KeyStrings }

\* The Swap component over two tokens of any package hashes, on a node whose
\* pair tokens cannot be read.
InitKey ==
    /\ IdleRpc
    /\ config \in KeyConfigs
    /\ chain = [DefaultChain EXCEPT !.readable = FALSE]
    /\ InitSwapState(config)
    /\ TxAtRest("Swap")

SpecKey == InitKey /\ [][NextPool]_vars

\* The forms in which the package hash of WCSPR may be configured: bare,
\* 'hash-', 'contract-' and 'contract-package-', and one in upper case.
HashForms ==
    {p \o TokenHex.WCSPR.pkg : p \in {<<>>, HashPfx, ContractPfx, ContractPackagePfx}}
        \cup {<<"H", "A", "S", "H", "-", "0", "A", "1", "0">>}

\* The Swap component with the package hash of WCSPR configured in any of its
\* forms, on a node that reports the pair tokens by their package hashes.
InitNorm ==
    /\ IdleRpc
    /\ \E f \in HashForms : config = [PoolConfig EXCEPT !.tokens.WCSPR.packageHash = f]
    /\ chain = DefaultChain
    /\ InitSwapState(config)
    /\ TxAtRest("Swap")

SpecNorm == InitNorm /\ [][NextPool]_vars

\* One of the three components with its transaction handlers, for every
\* wallet; the Staking component for every configuration of the staking
\* manager.
InitTx ==
    /\ IdleRpc
    /\ config = PoolConfig
    /\ chain = DefaultChain
    /\ component \in {"Swap", "Approve", "Staking"}
    /\ wallet \in Wallets
    /\ lstConfig \in (IF component = "Staking" THEN LstConfigs ELSE {NoLstConfig})
    /\ IF component = "Swap" THEN InitSwapState(config) ELSE SwapAtRest
    /\ MountedState

NextTx ==
    \/ SameTokenEffect
    \/ FetchReservesEffect
    \/ \E f \in fetches : PairAddressResolved(f)
    \/ \E f \in fetches : PoolResolved(f)
    \/ \E f \in fetches : FetchFailed(f)
    \/ PreviewEffect
    \/ \E s \in AmountStrings : setAmountIn(s)
    \/ \E s \in SlippageStrings : setSlippage(s)
    \/ handleSwap
    \/ \E sig \in Signatures : SwapSigned(sig)
    \/ \E e \in SignErrors : SwapSignRejected(e)
    \/ \E h \in TxHashes : SwapSent(h)
    \/ \E e \in SendErrors : SwapSendRejected(e)
    \/ \E s \in SymbolSet(config) : setToken(s)
    \/ \E s \in ApproveAmounts : setAmount(s)
    \/ handleApprove
    \/ \E sig \in Signatures : ApproveSigned(sig)
    \/ \E e \in SignErrors : ApproveSignRejected(e)
    \/ \E h \in TxHashes : ApproveSent(h)
    \/ \E e \in SendErrors : ApproveSendRejected(e)
    \/ \E s \in StakeAmounts : StakeInputChanged(s)
    \/ \E s \in StakeAmounts : UnstakeInputChanged(s)
    \/ \E s \in RequestIds : setRequestId(s)
    \/ handleStake
    \/ handleUnstake
    \/ handleWithdraw
    \/ \E sig \in Signatures : StakingSigned(sig)
    \/ \E e \in SignErrors : StakingSignRejected(e)
    \/ \E h \in TxHashes : StakingSent(h)
    \/ \E e \in SendErrors : StakingSendRejected(e)

SpecTx == InitTx /\ [][NextTx]_vars

\* wallet.sign or dex.sendDeployRaw settles, for whichever handler awaits it.
Settles ==
    \/ \E sig \in Signatures : SwapSigned(sig)
    \/ \E e \in SignErrors : SwapSignRejected(e)
    \/ \E h \in TxHashes : SwapSent(h)
    \/ \E e \in SendErrors : SwapSendRejected(e)
    \/ \E sig \in Signatures : ApproveSigned(sig)
    \/ \E e \in SignErrors : ApproveSignRejected(e)
    \/ \E h \in TxHashes : ApproveSent(h)
    \/ \E e \in SendErrors : ApproveSendRejected(e)
    \/ \E sig \in Signatures : StakingSigned(sig)
    \/ \E e \in SignErrors : StakingSignRejected(e)
    \/ \E h \in TxHashes : StakingSent(h)
    \/ \E e \in SendErrors : StakingSendRejected(e)

\* The handlers over fewer inputs (a valid and an invalid value of each), the
\* wallet and the node being bound to settle every request they are given.
NextTxLive ==
    \/ SameTokenEffect
    \/ FetchReservesEffect
    \/ \E f \in fetches : PairAddressResolved(f)
    \/ \E f \in fetches : PoolResolved(f)
    \/ \E f \in fetches : FetchFailed(f)
    \/ PreviewEffect
    \/ \E s \in {<<>>, <<"1", "0">>} : setAmountIn(s)
    \/ \E s \in {<<>>, <<"0", ".", "5">>} : setSlippage(s)
    \/ handleSwap
    \/ \E sig \in Signatures : SwapSigned(sig)
    \/ \E e \in SignErrors : SwapSignRejected(e)
    \/ \E h \in TxHashes : SwapSent(h)
    \/ \E e \in SendErrors : SwapSendRejected(e)
    \/ \E s \in {<<>>, <<"1", "0", "0", "0">>} : setAmount(s)
    \/ handleApprove
    \/ \E sig \in Signatures : ApproveSigned(sig)
    \/ \E e \in SignErrors : ApproveSignRejected(e)
    \/ \E h \in TxHashes : ApproveSent(h)
    \/ \E e \in SendErrors : ApproveSendRejected(e)
    \/ \E s \in {<<"-", "5">>, <<"1", "0", "0">>} : StakeInputChanged(s)
    \/ \E s \in {<<>>, <<"7">>, <<"1", ".", "5">>} : setRequestId(s)
    \/ handleStake
    \/ handleUnstake
    \/ handleWithdraw
    \/ \E sig \in Signatures : StakingSigned(sig)
    \/ \E e \in SignErrors : StakingSignRejected(e)
    \/ \E h \in TxHashes : StakingSent(h)
    \/ \E e \in SendErrors : StakingSendRejected(e)

SpecTxLive == InitTx /\ [][NextTxLive]_vars /\ WF_vars(Settles)

\* App around the Swap component, for every state of the wallet: the wallet
\* connects, disconnects and changes account while the balances are polled.
InitApp ==
    /\ IdleRpc
    /\ config = PoolConfig
    /\ chain = DefaultChain
    /\ SwapAtRest
    /\ wallet \in WalletStates
    /\ lstConfig = NoLstConfig
    /\ component = "Swap"
    /\ MountedState

NextApp ==
    \/ \E w \in WalletStates : Connect(w)
    \/ \E w \in WalletStates : Disconnect(w)
    \/ \E w \in WalletStates : AccountChanged(w)
    \/ PollingEffect
    \/ \E t \in intervals : IntervalFires(t)
    \/ \E bal \in Balances : BalanceResolved(bal)
    \/ \E bal \in Balances : TokenBalancesResolved(bal)
    \/ BalanceFailed

SpecApp == InitApp /\ [][NextApp]_vars

\* The configured node address, read off process.env directly.
EnvConfigured == Truthy(rpcEnv.NODE_ADDRESS) \/ Truthy(rpcEnv.VITE_NODE_ADDRESS)

EnvAddress ==
    IF Truthy(rpcEnv.NODE_ADDRESS) THEN rpcEnv.NODE_ADDRESS.s ELSE rpcEnv.VITE_NODE_ADDRESS.s

\* The RPC URL the relay is meant to use for a node address.
ExpectedUrl(a) ==
    IF Len(a) >= 4 /\ <<a[Len(a) - 3], a[Len(a) - 2], a[Len(a) - 1], a[Len(a)]>> = <<"/", "r", "p", "c">>
    THEN a ELSE a \o <<"/", "r", "p", "c">>

\* The JSON value a request body carries, if any.
BodyValue(b) ==
    CASE b.kind = "object" -> {b.val}
      [] b.kind = "string" /\ b.text.valid -> {b.text.val}
      [] OTHER -> {}

\* C1 (as claimed): every invocation for a POST request while a node address
\* is configured has, once it ends, sent exactly one upstream POST to the
\* node's RPC URL carrying the request's JSON payload, and has answered the
\* client with the upstream's status code and body text.
C1_PassThrough ==
    (rpcPc \in {"done", "threw"} /\ rpcReq.method = "POST" /\ EnvConfigured) =>
        /\ Len(upstreamReqs) = 1
        /\ upstreamReqs[1].url = ExpectedUrl(EnvAddress)
        /\ upstreamReqs[1].method = "POST"
        /\ \A v \in BodyValue(rpcReq.body) :
               upstreamReqs[1].body.def /\ upstreamReqs[1].body.t.valid
                   /\ upstreamReqs[1].body.t.val = v
        /\ upstream.arrived
        /\ Len(rpcRes.sent) = 1
        /\ rpcRes.sent[1] = [kind |-> "text", text |-> upstream.text]
        /\ rpcRes.status = upstream.status

\* C2: the upstream node is contacted only for a POST request with a node
\* address configured; a non-POST request is answered 405 'Method not allowed'
\* whatever the configuration, a POST without a node address is answered 500
\* 'NODE_ADDRESS is not configured', and neither makes an upstream request.
C2_RelayGuards ==
    /\ Len(upstreamReqs) > 0 => (rpcReq.method = "POST" /\ EnvConfigured)
    /\ (rpcPc # "idle" /\ rpcReq.method # "POST") =>
           /\ rpcPc = "done"
           /\ upstreamReqs = <<>>
           /\ rpcRes.status = 405
           /\ rpcRes.sent = <<[kind |-> "error", text |-> "Method not allowed"]>>
    /\ (rpcPc # "idle" /\ rpcReq.method = "POST" /\ ~EnvConfigured) =>
           /\ rpcPc = "done"
           /\ upstreamReqs = <<>>
           /\ rpcRes.status = 500
           /\ rpcRes.sent = <<[kind |-> "error", text |-> "NODE_ADDRESS is not configured"]>>

\* A GET request was refused although a node address is configured.
C2_Witness ==
    /\ rpcPc = "done" /\ rpcReq.method = "GET" /\ EnvConfigured
    /\ rpcRes.status = 405

\* The key a package hash serializes to: the tag byte 1 followed by the bytes
\* its hexadecimal digits (the last four characters) denote.
C3_Key(k) ==
    LET h == SubSeq(k, Len(k) - 3, Len(k))
    IN  <<1, 16 * HexVal(h[1]) + HexVal(h[2]), 16 * HexVal(h[3]) + HexVal(h[4])>>

\* a is byte-lexicographically smaller than b (same length).
C3_LexLess(a, b) ==
    \E i \in 1..Len(a) : a[i] < b[i] /\ \A j \in 1..(i - 1) : a[j] = b[j]

\* C3: when the pair tokens cannot be read, the pool loaded for a selection of
\* two tokens with distinct package hashes is labelled token0 = the token with
\* the byte-lexicographically smaller serialized key and token1 = the other,
\* and the opposite selection is labelled the same.
C3_FallbackOrder ==
    (pairInfo.loaded /\ pairInfo.branch = "fallback") =>
        LET a == pairInfo.tin
            b == pairInfo.tout
            ka == C3_Key(config.tokens[a].packageHash)
            kb == C3_Key(config.tokens[b].packageHash)
            opposite == ResolveTokens(b, a, GetPairTokens(chain, pairAddr), config)
        IN  ka # kb =>
                /\ pairInfo.token0 = (IF C3_LexLess(ka, kb) THEN a ELSE b)
                /\ pairInfo.token1 = (IF C3_LexLess(ka, kb) THEN b ELSE a)
                /\ opposite.token0 = pairInfo.token0
                /\ opposite.token1 = pairInfo.token1

\* A pool loaded by the fallback whose token0 is the selected output token,
\* the two package hashes being distinct and written with different prefixes.
C3_Witness ==
    /\ pairInfo.loaded /\ pairInfo.branch = "fallback"
    /\ pairInfo.token0 = pairInfo.tout /\ pairInfo.token1 = pairInfo.tin
    /\ C3_Key(config.tokens[pairInfo.tin].packageHash)
           # C3_Key(config.tokens[pairInfo.tout].packageHash)
    /\ StartsWith(config.tokens[pairInfo.tin].packageHash, ContractPackagePfx)
    /\ StartsWith(config.tokens[pairInfo.tout].packageHash, HashPfx)

\* The pool the component would load for a selection on this chain.
C4_Loaded(ti, to) ==
    LET addr == GetPairAddress(ti, to)
        res == GetPairReserves(chain, addr)
        t == ResolveTokens(ti, to, GetPairTokens(chain, addr), config)
    IN  [r0 |-> res.reserve0, r1 |-> res.reserve1, token0 |-> t.token0, token1 |-> t.token1]

\* C4 (as claimed): whenever the preview is computed from the pool loaded for
\* the current selection (A, B), the reserveIn and reserveOut it hands to
\* getAmountOut are those of the selection (B, A) on the same chain exchanged,
\* whichever branch labelled token0 and token1.
C4_ReserveOrder ==
    (previewArgs.called /\ previewArgs.tin = previewArgs.tokenIn
        /\ previewArgs.tout = previewArgs.tokenOut) =>
        LET a == previewArgs.tokenIn
            b == previewArgs.tokenOut
        IN  /\ ReserveIn(b, C4_Loaded(b, a)) = previewArgs.reserveOut
            /\ ReserveOut(b, C4_Loaded(b, a)) = previewArgs.reserveIn

\* The same statement without the branch in which neither pair token is
\* recognised: it holds.
C4_ReserveOrderRecognised ==
    previewArgs.branch # "none" => C4_ReserveOrder

\* A slippage string denotes a percentage in [0, 100]; then its value in tenths
\* of a percent.
C5_InRange(sl) ==
    LET p == ParseFloat(sl)
    IN  ~p.nan /\ (~p.neg \/ IsZero(p)) /\ FloorScaled(p, 1) <= 1000

C5_Tenths(sl) == FloorScaled(ParseFloat(sl), 1)

\* The preview effect computes (it neither resets nor throws).
C5_PreviewComputes ==
    /\ fxQueue # <<>> /\ Head(fxQueue).fx = "preview"
    /\ Head(fxQueue).snap.pairInfo.loaded
    /\ GtZero(ParseFloat(Head(fxQueue).snap.amountIn))

\* handleSwap builds its deploy.
C5_SwapBuilds == component = "Swap" /\ op.pc = "idle" /\ op'.pc = "sign"

\* C5: when the preview computes with a slippage in [0, 100], minimumReceived
\* is expectedOutput * (1 - slippage / 100) rounded to 4 decimals, so that
\* 0 <= minimumReceived <= expectedOutput, with equality at slippage 0; and
\* the minimum output handleSwap hands to the deploy builder is
\* floor(minimumReceived * 10^decimals(tokenOut)).
C5_Step ==
    /\ (C5_PreviewComputes /\ C5_InRange(Head(fxQueue).snap.slippage)) =>
           LET t == C5_Tenths(Head(fxQueue).snap.slippage)
               e == expectedOutput'.u
               m == minimumReceived'.u
               d == 1000 * m - e * (1000 - t)
           IN  /\ ~expectedOutput'.nan /\ ~minimumReceived'.nan
               /\ e >= 0
               /\ 0 <= m /\ m <= e
               /\ -500 < d /\ d <= 500
               /\ (t = 0 => m = e)
    /\ C5_SwapBuilds =>
           LET w == Pow10(config.tokens[tokenOut].decimals)
               m == minimumReceived.u
               q == op'.deploy.minOut
           IN  /\ op'.deploy.builder = "makeSwapExactTokensForTokensDeploy"
               /\ 10000 * q <= m * w /\ m * w < 10000 * (q + 1)

C6_Settled ==
    (\A i \in 1..Len(fxQueue) : fxQueue[i].fx # "same") => tokenIn # tokenOut

C6_Step ==
    /\ (tokenIn = tokenOut) =>
           /\ tokenIn' = tokenIn
           /\ tokenOut' # tokenIn'
           /\ tokenOut' \in SymbolSet(config)
    /\ (tokenIn' # tokenIn /\ tokenOut' # tokenOut) =>
           (tokenIn' = tokenOut /\ tokenOut' = tokenIn)
    /\ (tokenIn # tokenOut /\ fxQueue # <<>>) => UNCHANGED <<tokenIn, tokenOut>>

C6_SameTokenPrevented == []C6_Settled /\ [][C6_Step]_vars

\* The effect has just replaced tokenOut: the render that selected the same
\* token twice still has effects to run, and the tokens now differ.
C6_Witness ==
    /\ tokenIn # tokenOut
    /\ \E i \in 1..Len(fxQueue) :
          fxQueue[i].fx = "fetch" /\ fxQueue[i].snap.tokenIn = fxQueue[i].snap.tokenOut
    /\ tokenOut = FallbackSymbol(config, tokenIn)
    /\ tokenOut # Symbols[1]

\* C7: a deploy is handed to sendDeployRaw only after wallet.sign resolved for
\* that deploy, with an approval made of the wallet's public key and the
\* signature wallet.sign resolved with; after a rejected signature nothing
\* has been broadcast. For handleSwap, handleApprove and the staking sendDeploy.
C7_Inv ==
    /\ op.json.sent =>
           /\ op.signRequest.made
           /\ op.json.deploy = op.signRequest
           /\ op.signature \in Signatures
           /\ wallet.publicKey # ""
           /\ \E i \in 1..Len(op.json.approvals) :
                  op.json.approvals[i] = [signer |-> wallet.publicKey,
                                          signature |-> op.signature]
    /\ op.pc = "sign" => (~op.json.sent /\ op.signature = "")
    /\ op.outcome \in {"rejected", "guard", "threw"} => ~op.json.sent

C7_Step ==
    (~op.json.sent /\ op'.json.sent) =>
        /\ op.pc = "sign" /\ op.signRequest.made
        /\ op'.signRequest = op.signRequest
        /\ op'.json.deploy = op.signRequest

C7_SignBeforeBroadcast == []C7_Inv /\ [][C7_Step]_vars

\* A stake deploy broadcast with the second signature the wallet may give.
C7_Witness ==
    /\ op.kind = "stake" /\ op.pc = "send" /\ op.json.sent
    /\ op.signature = "sig-2"
    /\ op.json.approvals = <<[signer |-> PublicKeyHex, signature |-> "sig-2"]>>

\* handleSwap runs (the only step of the Swap component that leaves op.pc = "idle"
\* with another op).
C8_Runs == component = "Swap" /\ op.pc = "idle" /\ fxQueue = <<>> /\ op' # op

\* C8: without a public key, or with an amount that parses to a number <= 0,
\* handleSwap shows one error toast and returns: no deploy, no signature
\* request, no broadcast, loading unchanged. With any amount that is not a
\* positive number (empty and non-numeric included) no signature is requested
\* and nothing is broadcast.
C8_Step ==
    C8_Runs =>
        /\ (wallet.publicKey = "" \/ LeqZero(ParseFloat(amountIn))) =>
               /\ op'.pc = "idle"
               /\ Len(op'.toasts) = 1 /\ op'.toasts[1].call = "show"
               /\ op'.toasts[1].type = "error"
               /\ ~op'.deploy.made /\ ~op'.signRequest.made /\ ~op'.json.sent
               /\ loading' = loading
        /\ ~GtZero(ParseFloat(amountIn)) =>
               /\ op'.pc = "idle"
               /\ ~op'.signRequest.made /\ ~op'.json.sent

C8_Inv ==
    (op.kind = "swap" /\ (op.signRequest.made \/ op.json.sent)) =>
        (wallet.publicKey # "" /\ op.deploy.made)

C8_SwapPreconditions == []C8_Inv /\ [][C8_Step]_vars

\* handleSwap has refused an amount of -5 entered with a wallet connected and
\* the pool loaded.
C8_Witness ==
    /\ op.kind = "swap" /\ op.outcome = "guard"
    /\ wallet.publicKey # "" /\ pairInfo.loaded
    /\ amountIn = <<"-", "5">>
    /\ op.toasts = <<Show("error", "Please enter a valid amount")>>
    /\ ~loading

\* The staking-manager hash the environment configures.
C9_Hash ==
    IF lstConfig.stakingManagerPackageHash # <<>> THEN lstConfig.stakingManagerPackageHash
    ELSE lstConfig.stakingManagerContractHash

\* The entered amount is a finite number greater than 0, and at least 100.
C9_Positive(s) ==
    LET n == NumberOf(s)
    IN  ~n.nan /\ ~n.neg /\ \E i \in 1..Len(n.ip \o n.fp) : (n.ip \o n.fp)[i] # "0"

C9_AtLeast100(s) == C9_Positive(s) /\ DigitsToInt(NumberOf(s).ip) >= 100

\* The digits of floor(s * 10^9).
C9_Motes(s) ==
    LET n == NumberOf(s)
    IN  StripZeros(n.ip \o [i \in 1..9 |-> IF i <= Len(n.fp) THEN n.fp[i] ELSE "0"])

\* The toast handleStake owes the user, by the first condition that fails.
C9_Message ==
    IF wallet.activeKey = "" \/ wallet.publicKey = "" THEN "Please connect your wallet first"
    ELSE IF C9_Hash = <<>> THEN "Missing LST contract hashes in .env"
    ELSE IF ~C9_Positive(csprAmount) THEN "Enter a valid CSPR amount"
    ELSE "Minimum stake is 100 CSPR"

C9_Allowed ==
    /\ wallet.activeKey # "" /\ wallet.publicKey # ""
    /\ C9_Hash # <<>>
    /\ C9_AtLeast100(csprAmount)

\* handleStake runs.
C9_Runs == component = "Staking" /\ op.pc = "idle" /\ op' # op /\ op'.kind = "stake"

\* C9: handleStake builds a stake deploy and asks for its signature only if
\* the wallet is connected, a staking-manager hash is configured and the
\* amount is a finite number >= 100, and then the amount of the deploy is
\* floor(amount * 10^9); otherwise it shows the error toast of the first
\* condition that fails, builds and sends nothing and leaves loading false.
\* A stake deploy is broadcast only after such a run.
C9_Step ==
    C9_Runs =>
        IF C9_Allowed
        THEN /\ op'.pc = "sign" /\ op'.deploy.made
             /\ op'.deploy.entryPoint = "stake"
             /\ op'.deploy.argValue = C9_Motes(csprAmount)
             /\ op'.signRequest = op'.deploy
        ELSE /\ op'.pc = "idle"
             /\ op'.toasts = <<[call |-> "show", type |-> "error", message |-> C9_Message,
                                detail |-> <<>>, txHash |-> ""]>>
             /\ ~op'.deploy.made /\ ~op'.signRequest.made /\ ~op'.json.sent
             /\ ~loading'

C9_Inv ==
    (op.kind = "stake" /\ (op.deploy.made \/ op.json.sent)) =>
        /\ wallet.activeKey # "" /\ wallet.publicKey # ""
        /\ C9_Hash # <<>>
        /\ op.deploy.made
        /\ Len(op.deploy.argValue) >= 12
        /\ (op.json.sent => op.json.deploy = op.deploy)

C10_Cspr(c) == <<c>> \o [i \in 1..9 |-> "0"]

\* h is the hash g with a leading 'hash-' or 'contract-package-' removed.
C10_Cleaned(h, g) ==
    IF StartsWith(g, HashPfx) THEN HashPfx \o h = g
    ELSE IF StartsWith(g, ContractPackagePfx) THEN ContractPackagePfx \o h = g
    ELSE h = g

\* C10: the deploy built by makeStakeDeploy calls 'stake' with cspr_amount and
\* pays 5 CSPR, the one built by makeUnstakeDeploy calls 'unstake' with
\* scspr_amount and pays 3 CSPR, the one built by makeWithdrawDeploy calls
\* 'withdraw_unstaked' with request_id and pays 2 CSPR; each targets the
\* staking-manager hash without its 'hash-' or 'contract-package-' prefix and
\* carries the sender, the chain name and gas price 1 in its header.
C10_Builders ==
    (op.kind \in {"stake", "unstake", "withdraw"} /\ op.deploy.made) =>
        LET d == op.deploy
        IN  /\ op.kind = "stake" =>
                   /\ d.entryPoint = "stake" /\ d.argName = "cspr_amount"
                   /\ d.payment = C10_Cspr("5")
            /\ op.kind = "unstake" =>
                   /\ d.entryPoint = "unstake" /\ d.argName = "scspr_amount"
                   /\ d.payment = C10_Cspr("3")
            /\ op.kind = "withdraw" =>
                   /\ d.entryPoint = "withdraw_unstaked" /\ d.argName = "request_id"
                   /\ d.payment = C10_Cspr("2")
            /\ C10_Cleaned(d.target, C9_Hash)
            /\ d.account = wallet.publicKey /\ d.account # ""
            /\ d.chainName = config.chainName
            /\ d.gasPrice = 1

\* An unstake deploy built for a staking manager configured with the
\* 'contract-package-' prefix.
C10_Witness ==
    /\ op.kind = "unstake" /\ op.deploy.made
    /\ StartsWith(C9_Hash, ContractPackagePfx)
    /\ op.deploy.target = <<"0", "c", "0", "c">>
    /\ op.deploy.payment = <<"3", "0", "0", "0", "0", "0", "0", "0", "0", "0">>

\* A handler passes its initial checks: it starts awaiting wallet.sign, or its
\* deploy construction throws inside the try block.
C11_Starts == op.pc = "idle" /\ op'.pc = "sign"

C11_Throws == op.pc = "idle" /\ op' # op /\ op'.outcome = "threw" /\ op'.kind # "withdraw"

\* C11: a handler that passes its initial checks sets loading; when its deploy
\* construction throws, when the signature is rejected, when the broadcast
\* fails and when it succeeds loading is false again, so that, wallet.sign and
\* sendDeployRaw settling, loading always returns to false.
C11_Step ==
    /\ C11_Starts => loading'
    /\ C11_Throws => ~loading'
    /\ (op.pc # "idle" /\ op'.pc = "idle") => ~loading'

C11_Inv == loading <=> op.pc \in {"sign", "send"}

C11_LoadingReleased == []C11_Inv /\ [][C11_Step]_vars /\ (loading ~> ~loading)

\* A stake whose broadcast failed: loading is false again.
C11_Witness ==
    /\ op.kind = "stake" /\ op.outcome = "failed" /\ op.json.sent
    /\ ~loading

\* The toasts of one type a handler run has shown.
Shown(type) == {i \in DOMAIN op.toasts : op.toasts[i].call = "show" /\ op.toasts[i].type = type}

\* A finished run of handleSwap, of handleApprove or of sendDeploy: the handler
\* passed its initial checks and has returned.
C12_Finished == op.pc = "idle" /\ op.outcome \in {"threw", "rejected", "failed", "sent"} /\ ~(op.kind = "withdraw" /\ op.outcome = "threw")

C13_Settled == pollDeps = Deps

\* The polling effect runs in this step.
C13_EffectRuns == pollDeps' # pollDeps

\* C13: at most one polling interval is active at any time; once the effect has
\* run for the current wallet, none is active unless the wallet is connected
\* with an active key and a public key, and then exactly one is, calling
\* fetchBalance every 10000 ms for that wallet; a run of the effect clears the
\* interval of the previous run and, for such a wallet, calls fetchBalance at
\* once and starts an interval that did not exist before.
C13_Active ==
    /\ Cardinality(intervals) <= 1
    /\ (C13_Settled /\ ~Polls(Deps)) => intervals = {}
    /\ (C13_Settled /\ Polls(Deps)) =>
          \E t \in intervals :
              /\ intervals = {t}
              /\ t.callback = "fetchBalance" /\ t.period = 10000
              /\ t.activeKey = wallet.activeKey /\ t.publicKey = wallet.publicKey

C13_Step ==
    C13_EffectRuns =>
        /\ \A t \in intervals : t \notin intervals'
        /\ Polls(Deps') =>
              /\ balanceFetch' = [by |-> "effect", activeKey |-> wallet.activeKey,
                                  publicKey |-> wallet.publicKey, pc |-> "cspr"]
              /\ Cardinality(intervals') = 1
        /\ ~Polls(Deps') => balanceFetch' = balanceFetch

C13_PollingLifecycle == []C13_Active /\ [][C13_Step]_vars

\* The wallet changed account while it was polled: the interval of the first
\* account is gone and the one of the second account is active; then the
\* wallet disconnected and none is left.
C13_Witness ==
    /\ C13_Settled /\ ~isConnected /\ intervals = {}
    /\ timerSeq >= 2
    /\ balanceFetch.by = "interval"

\* C14: once every fetchReserves has completed and every effect has run, a
\* loaded pool is the pool that was fetched for the selected pair (tokenIn,
\* tokenOut) and pairAddr is the address of that pair.
C14_LoadedMatchesSelection ==
    (fetches = {} /\ fxQueue = <<>> /\ pairInfo.loaded) =>
        /\ pairInfo.tin = tokenIn /\ pairInfo.tout = tokenOut
        /\ pairAddr = GetPairAddress(tokenIn, tokenOut)

\* C15: when an invocation of handler has ended, by returning or by throwing,
\* it has sent exactly one response.
C15_AlwaysAnswers == rpcPc \in {"done", "threw"} => Len(rpcRes.sent) = 1

\* C16: for a loaded pool whose pair tokens the node reports by their package
\* hashes, normalizeHash gives the same string for the reported hash and for
\* the configured package hash of each of the two selected tokens, whatever
\* prefix and letter case the configuration uses, and findSymbol resolves the
\* reported hash to that token's symbol.
C16_PrefixForms ==
    pairInfo.loaded =>
        \A s \in {pairInfo.tin, pairInfo.tout} :
            /\ normalizeHash(config.tokens[s].packageHash)
                   = normalizeHash(ReportedKey(s, "package"))
            /\ findSymbol(ReportedKey(s, "package"), config) = s

====
